---- MODULE Spec2Model ----
(***************************************************************************)
(* Host-side orchestration core of ACE (src/src/main.js): the validators,   *)
(* the bridge handlers that launch worker processes, the stream decoders    *)
(* and the timers that bound a worker's life.                               *)
(*                                                                          *)
(* Strings are sequences of character codes.  Free text, whose length       *)
(* ceiling is 10000 or 50000 characters, is kept run-length encoded: a      *)
(* sequence of runs [c |-> code, n |-> count].  Paths are POSIX paths.      *)
(***************************************************************************)
EXTENDS Integers, Sequences, FiniteSets, TLC

VARIABLES vcall, vret, op, boot, ui

vars == <<vcall, vret, op, boot, ui>>
validatorVars == <<vcall, vret>>
opVars == <<op>>
bootVars == <<boot>>
uiVars == <<ui>>

-----------------------------------------------------------------------------
(* Bounds of the model. *)

MaxRuns == 2
MaxNameLen == 3
MaxPathLen == 5

-----------------------------------------------------------------------------
(* Character codes and general string helpers. *)

SLASH == 47
DOT == 46
TILDE == 126

SeqsUpTo(S, n) == UNION {[1..k -> S] : k \in 0..n}

Last(s) == s[Len(s)]
Front(s) == SubSeq(s, 1, Len(s) - 1)

\* String.prototype.includes for a needle of one or two characters.
Includes1(s, c) == \E i \in 1..Len(s) : s[i] = c
Includes2(s, c, d) == \E i \in 1..(Len(s) - 1) : s[i] = c /\ s[i + 1] = d

\* ECMAScript WhiteSpace and LineTerminator code points below 256.
IsWhiteSpace(c) == c \in {9, 10, 11, 12, 13, 32, 160}

RECURSIVE TrimStart(_)
TrimStart(s) ==
    IF s = <<>> THEN <<>>
    ELSE IF IsWhiteSpace(Head(s)) THEN TrimStart(Tail(s)) ELSE s

RECURSIVE TrimEnd(_)
TrimEnd(s) ==
    IF s = <<>> THEN <<>>
    ELSE IF IsWhiteSpace(Last(s)) THEN TrimEnd(Front(s)) ELSE s

\* String.prototype.trim
Trim(s) == TrimEnd(TrimStart(s))

-----------------------------------------------------------------------------
(* JavaScript values that cross the bridge: t is the typeof tag, s the      *)
(* characters (or runs) of a string, n the value of a number.               *)

JsString(s) == [t |-> "string", s |-> s, n |-> 0]
JsNumber(n) == [t |-> "number", s |-> <<>>, n |-> n]
JsUndefined == [t |-> "undefined", s |-> <<>>, n |-> 0]
JsObject == [t |-> "object", s |-> <<>>, n |-> 0]

\* ToBoolean: the empty string, 0 and undefined are falsy.
Truthy(v) ==
    CASE v.t = "string" -> v.s # <<>>
      [] v.t = "number" -> v.n # 0
      [] v.t = "undefined" -> FALSE
      [] OTHER -> TRUE

\* Outcome of a validator: a sanitized value, or a thrown Error(reason).
Ok(v) == [ok |-> TRUE, value |-> v, reason |-> ""]
Throw(r) == [ok |-> FALSE, value |-> <<>>, reason |-> r]

-----------------------------------------------------------------------------
(* validateAndSanitizeInput *)

DefaultMaxLength == 10000
QueryMaxLength == 50000

RECURSIVE TextLength(_)
TextLength(runs) ==
    IF runs = <<>> THEN 0 ELSE Head(runs).n + TextLength(Tail(runs))

\* The character class [\x00-\x08\x0B\x0C\x0E-\x1F\x7F].
StripAllControl(c) == (c >= 0 /\ c <= 31) \/ c = 127
IsStripped(c) ==
    \/ (c >= 0 /\ c <= 8)
    \/ c = 11
    \/ c = 12
    \/ (c >= 14 /\ c <= 31)
    \/ c = 127

\* input.replace(/[...]/g, '') on run-length encoded text.
StripControl(runs) == SelectSeq(runs, LAMBDA r : ~IsStripped(r.c))

TooLongMessage(maxLength) ==
    "Input too long. Maximum length is " \o ToString(maxLength) \o " characters"

validateAndSanitizeInput(input, maxLength) ==
    IF input.t # "string" THEN Throw("Input must be a string")
    ELSE IF TextLength(input.s) > maxLength THEN Throw(TooLongMessage(maxLength))
    ELSE Ok(StripControl(input.s))

-----------------------------------------------------------------------------
(* validateModelName *)

\* One character of the class [a-zA-Z0-9\-_:.].
ModelNameCharNoDigitBound(c) ==
    \/ (c >= 97 /\ c <= 122)
    \/ (c >= 65 /\ c <= 90)
    \/ (c >= 47 /\ c <= 58)
    \/ c \in {45, 95, 46}
IsModelNameChar(c) ==
    \/ (c >= 97 /\ c <= 122)
    \/ (c >= 65 /\ c <= 90)
    \/ (c >= 48 /\ c <= 57)
    \/ c \in {45, 95, 58, 46}

\* /^[a-zA-Z0-9\-_:.]+$/.test(s)
ModelNameRegexTest(s) ==
    /\ Len(s) >= 1
    /\ \A i \in 1..Len(s) : IsModelNameChar(s[i])

validateModelName(modelName) ==
    IF ~Truthy(modelName) \/ modelName.t # "string" THEN Throw("Invalid model name")
    ELSE IF ~ModelNameRegexTest(modelName.s) THEN Throw("Invalid model name format")
    ELSE Ok(Trim(modelName.s))

-----------------------------------------------------------------------------
(* path.normalize (POSIX) and validateAndSanitizeFilePath *)

RECURSIVE SplitOn(_, _)
\* s.split(sep) for a one-character separator: always at least one segment.
SplitOn(s, sep) ==
    IF ~Includes1(s, sep) THEN <<s>>
    ELSE LET i == CHOOSE k \in 1..Len(s) :
                      s[k] = sep /\ \A j \in 1..(k - 1) : s[j] # sep
         IN <<SubSeq(s, 1, i - 1)>> \o SplitOn(SubSeq(s, i + 1, Len(s)), sep)

RECURSIVE JoinWith(_, _)
JoinWith(segs, sep) ==
    IF segs = <<>> THEN <<>>
    ELSE IF Len(segs) = 1 THEN segs[1]
    ELSE segs[1] \o <<sep>> \o JoinWith(Tail(segs), sep)

DotDot == <<DOT, DOT>>

RECURSIVE NormalizeSegments(_, _, _)
\* normalizeString: resolve "." and ".." segments and drop empty ones.
NormalizeSegments(segs, res, allowAboveRoot) ==
    IF segs = <<>> THEN res
    ELSE LET seg == Head(segs)
             rest == Tail(segs)
         IN IF seg = <<>> \/ seg = <<DOT>>
            THEN NormalizeSegments(rest, res, allowAboveRoot)
            ELSE IF seg = DotDot
            THEN IF res # <<>> /\ Last(res) # DotDot
                 THEN NormalizeSegments(rest, Front(res), allowAboveRoot)
                 ELSE IF allowAboveRoot
                 THEN NormalizeSegments(rest, Append(res, DotDot), allowAboveRoot)
                 ELSE NormalizeSegments(rest, res, allowAboveRoot)
            ELSE NormalizeSegments(rest, Append(res, seg), allowAboveRoot)

normalize(p) ==
    IF p = <<>> THEN <<DOT>>
    ELSE LET isAbsolute == p[1] = SLASH
             trailingSeparator == Last(p) = SLASH
             body == JoinWith(NormalizeSegments(SplitOn(p, SLASH), <<>>, ~isAbsolute), SLASH)
         IN IF body = <<>>
            THEN IF isAbsolute THEN <<SLASH>>
                 ELSE IF trailingSeparator THEN <<DOT, SLASH>> ELSE <<DOT>>
            ELSE (IF isAbsolute THEN <<SLASH>> ELSE <<>>)
                 \o body
                 \o (IF trailingSeparator THEN <<SLASH>> ELSE <<>>)

MaxFileSize == 100 * 1024 * 1024

\* stat is what fs.existsSync / fs.statSync report for the normalized path.
validateAndSanitizeFilePath_existsFirst(filePath, stat) ==
    IF ~Truthy(filePath) \/ filePath.t # "string" THEN Throw("Invalid file path")
    ELSE LET normalizedPath == normalize(filePath.s)
         IN IF ~stat.exists THEN Throw("File does not exist")
            ELSE IF Includes2(normalizedPath, DOT, DOT) \/ Includes1(normalizedPath, TILDE)
            THEN Throw("Invalid file path")
            ELSE IF stat.size > MaxFileSize
            THEN Throw("File too large. Maximum size is 100MB")
            ELSE Ok(normalizedPath)
validateAndSanitizeFilePath(filePath, stat) ==
    IF ~Truthy(filePath) \/ filePath.t # "string" THEN Throw("Invalid file path")
    ELSE LET normalizedPath == normalize(filePath.s)
         IN IF Includes2(normalizedPath, DOT, DOT) \/ Includes1(normalizedPath, TILDE)
            THEN Throw("Invalid file path")
            ELSE IF ~stat.exists THEN Throw("File does not exist")
            ELSE IF stat.size > MaxFileSize
            THEN Throw("File too large. Maximum size is 100MB")
            ELSE Ok(normalizedPath)

-----------------------------------------------------------------------------
(* Inputs of the validators. *)

TextChars == {0, 8, 9, 10, 11, 12, 13, 14, 31, 32, 127}
RunCounts == {1, 9999, 10000, 50000}
TextRuns == [c : TextChars, n : RunCounts]
Texts == SeqsUpTo(TextRuns, MaxRuns)

NameChars == {97, 90, 48, 45, 95, 58, 46, 47, 59, 32, 10, 64}
Names == SeqsUpTo(NameChars, MaxNameLen)

PathChars == {SLASH, DOT, TILDE, 97}
Paths == SeqsUpTo(PathChars, MaxPathLen)

FileSizes == {0, MaxFileSize, MaxFileSize + 1}
Stats == [exists : BOOLEAN, size : FileSizes]
NoStat == [exists |-> FALSE, size |-> 0]

NonStrings == {JsUndefined, JsObject, JsNumber(0), JsNumber(5)}

-----------------------------------------------------------------------------
(* Start-up (app.whenReady) and the conversation store theMessages.txt.     *)
(* boot is the host's position in its start-up sequence with what it has    *)
(* done so far; the store is absent, empty or holds text.                   *)

MaxClears == 2

\* The loop bound of ensureOllamaRunning.
OllamaStartAttempts == 20

Platforms == {"darwin", "other"}
FileSystems == {"ok", "readonly"}
StoreStates == {"absent", "empty", "text"}

\* The host before app.whenReady runs its checks.
NotStarted(platform, fs, store, launch) ==
    [pc |-> "python", platform |-> platform, fs |-> fs, store |-> store,
     python |-> "pending", pyProc |-> launch, pyKilled |-> FALSE,
     pyTimer |-> "set", pyFirst |-> "none", pyExit |-> "",
     ensured |-> FALSE, thrown |-> FALSE,
     first |-> "none", launches |-> 0, probes |-> 0, failed |-> 0,
     running |-> "none", available |-> "none", checks |-> "none",
     window |-> "none", external |-> FALSE,
     clears |-> 0, writes |-> 0, cleared |-> "none"]

\* The host with its main window open, as the bridge handlers assume it.
Started ==
    [NotStarted("other", "ok", "empty", "running") EXCEPT
        !.pc = "ready", !.python = "resolved", !.pyProc = "closed",
        !.pyFirst = "close", !.pyExit = "0",
        !.ensured = TRUE, !.available = "true",
        !.checks = "true", !.window = "main"]

\* What a liveness probe can meet: a reply with a status, a connection
\* error, or no reply within the probe's time limit.
ProbeReplies == {"200", "500", "error", "timeout"}

isOllamaRunning(reply) == reply = "200"

ensureMessagesFileExists_assumeExists(b) == [b EXCEPT !.ensured = TRUE]
ensureMessagesFileExists(b) ==
    IF b.store = "absent"
    THEN IF b.fs = "ok"
         THEN [b EXCEPT !.store = "empty", !.writes = @ + 1, !.ensured = TRUE]
         ELSE [b EXCEPT !.thrown = TRUE]
    ELSE [b EXCEPT !.ensured = TRUE]

createWindow(b) == [b EXCEPT !.window = "main"]

\* runPostInstallChecks from the return of ensureOllamaAvailable, whose
\* value it does not look at, to its own return.
PostInstallChecksEnd(b) ==
    LET e == ensureMessagesFileExists(b)
    IN  [e EXCEPT !.checks = IF e.thrown THEN "false" ELSE "true"]

\* app.whenReady once runPostInstallChecks has returned b.checks.
WhenReadyEnd(b) ==
    IF b.checks = "true"
    THEN [createWindow(b) EXCEPT !.pc = "ready"]
    ELSE [b EXCEPT !.window = "setup", !.pc = "ready"]

\* ensureOllamaAvailable returns avail; everything that follows runs
\* without waiting for anything.
Resume(b, avail) ==
    WhenReadyEnd(PostInstallChecksEnd([b EXCEPT !.available = avail]))

\* resolve(true) / reject(...) of validatePythonInstallation on the event
\* `first`: the first call settles the promise, and runPostInstallChecks goes
\* on to the Ollama checks or ends in its catch clause.
validatePythonSettle_lastCall(b, how, first) ==
    LET s == [b EXCEPT !.python = how, !.pyFirst = first]
    IN  IF how = "resolved"
        THEN [s EXCEPT !.pc = "available"]
        ELSE WhenReadyEnd([s EXCEPT !.checks = "false"])
validatePythonSettle(b, how, first) ==
    IF b.python # "pending" THEN b
    ELSE LET s == [b EXCEPT !.python = how, !.pyFirst = first]
         IN  IF how = "resolved"
             THEN [s EXCEPT !.pc = "available"]
             ELSE WhenReadyEnd([s EXCEPT !.checks = "false"])

\* ensureOllamaRunning up to its first wait.
EnsureFirst(b, reply) ==
    IF isOllamaRunning(reply)
    THEN [b EXCEPT !.first = "up", !.running = "true"]
    ELSE [b EXCEPT !.first = "down", !.launches = @ + 1, !.pc = "retry"]

\* One turn of the loop of ensureOllamaRunning: wait, probe, and return
\* when the probe succeeds or the loop is exhausted.
EnsureLoop_relaunch(b, reply) ==
    LET p == [b EXCEPT !.probes = @ + 1] IN
    IF isOllamaRunning(reply) THEN [p EXCEPT !.running = "true"]
    ELSE IF p.probes = OllamaStartAttempts
         THEN [p EXCEPT !.failed = @ + 1, !.running = "false"]
         ELSE [p EXCEPT !.failed = @ + 1, !.launches = @ + 1]
EnsureLoop(b, reply) ==
    LET p == [b EXCEPT !.probes = @ + 1] IN
    IF isOllamaRunning(reply) THEN [p EXCEPT !.running = "true"]
    ELSE IF p.probes = OllamaStartAttempts
         THEN [p EXCEPT !.failed = @ + 1, !.running = "false"]
         ELSE [p EXCEPT !.failed = @ + 1]

\* The value ensureOllamaAvailable returns when it ends in ensureOllamaRunning.
Returned(b) == IF b.running = "none" THEN b ELSE Resume(b, b.running)

-----------------------------------------------------------------------------
(* The chat surface of the window (renderer/scripts/chat-manager.js): the   *)
(* loading state of ChatManager and the chat requests it has sent.          *)

MaxQueries == 2

\* ChatManager after its constructor, with nothing sent.
SurfaceIdle ==
    [isProcessing |-> FALSE, inputEnabled |-> TRUE, spinner |-> FALSE,
     selectedFilePath |-> "", dialogOpen |-> FALSE,
     inFlight |-> 0, fallbackTimers |-> 0, sent |-> 0,
     lastSubmit |-> "none", errorMessages |-> 0]

\* What the query box and the model select can hold at a submit.
QueryInputs == {"", "hello"}
ModelSelections == {"", "No models found", "m1"}

\* ChatManager.clearLoadingState
clearLoadingState(u) ==
    [u EXCEPT !.inputEnabled = TRUE, !.spinner = FALSE,
              !.isProcessing = FALSE, !.selectedFilePath = ""]

\* ChatManager.handleSubmit up to its await.
handleSubmit_noGuard(u, query, model) ==
    IF query = "" THEN [u EXCEPT !.lastSubmit = "warning"]
    ELSE IF model = "" \/ model = "No models found"
    THEN [u EXCEPT !.lastSubmit = "error"]
    ELSE [u EXCEPT !.isProcessing = TRUE, !.inputEnabled = FALSE, !.spinner = TRUE,
                   !.inFlight = @ + 1, !.sent = @ + 1, !.lastSubmit = "sent"]
handleSubmit(u, query, model) ==
    IF u.isProcessing THEN [u EXCEPT !.lastSubmit = "ignored"]
    ELSE IF query = "" THEN [u EXCEPT !.lastSubmit = "warning"]
    ELSE IF model = "" \/ model = "No models found"
    THEN [u EXCEPT !.lastSubmit = "error"]
    ELSE [u EXCEPT !.isProcessing = TRUE, !.inputEnabled = FALSE, !.spinner = TRUE,
                   !.inFlight = @ + 1, !.sent = @ + 1, !.lastSubmit = "sent"]

\* handleSubmit after its await, when the request resolved: only the
\* fallback timer is set.
SubmitResolved_noTimer(u) == [u EXCEPT !.inFlight = @ - 1]
SubmitResolved(u) == [u EXCEPT !.inFlight = @ - 1, !.fallbackTimers = @ + 1]

\* handleSubmit after its await, when the request rejected: the catch
\* clause adds an error message to the chat and clears the loading state.
SubmitRejected(u) ==
    clearLoadingState([u EXCEPT !.inFlight = @ - 1, !.errorMessages = @ + 1])

\* The callback of the 3 s fallback timer.
FallbackFired(u) ==
    LET t == [u EXCEPT !.fallbackTimers = @ - 1]
    IN IF t.isProcessing THEN clearLoadingState(t) ELSE t

-----------------------------------------------------------------------------
NotCalled == [ok |-> FALSE, value |-> <<>>, reason |-> "not called"]

StringsAnd(S) == {JsString(s) : s \in S} \cup NonStrings

-----------------------------------------------------------------------------
(* Specification of the validators: one call on an arbitrary input. *)

InputCall(a, m) == [fn |-> "input", arg |-> a, maxLength |-> m, stat |-> NoStat]
ModelCall(a) == [fn |-> "model", arg |-> a, maxLength |-> 0, stat |-> NoStat]
PathCall(a, st) == [fn |-> "path", arg |-> a, maxLength |-> 0, stat |-> st]

InitValidator ==
    /\ \/ \E a \in StringsAnd(Texts), m \in {DefaultMaxLength, QueryMaxLength} :
            vcall = InputCall(a, m)
       \/ \E a \in StringsAnd(Names) : vcall = ModelCall(a)
       \/ \E a \in StringsAnd(Paths), st \in Stats : vcall = PathCall(a, st)
    /\ vret = NotCalled
    /\ op = <<>>
    /\ boot = Started
    /\ ui = SurfaceIdle

CallInput ==
    /\ vcall.fn = "input"
    /\ vret = NotCalled
    /\ vret' = validateAndSanitizeInput(vcall.arg, vcall.maxLength)
    /\ UNCHANGED <<vcall, op, bootVars, uiVars>>

CallModel ==
    /\ vcall.fn = "model"
    /\ vret = NotCalled
    /\ vret' = validateModelName(vcall.arg)
    /\ UNCHANGED <<vcall, op, bootVars, uiVars>>

CallPath ==
    /\ vcall.fn = "path"
    /\ vret = NotCalled
    /\ vret' = validateAndSanitizeFilePath(vcall.arg, vcall.stat)
    /\ UNCHANGED <<vcall, op, bootVars, uiVars>>

NextValidator == CallInput \/ CallModel \/ CallPath

SpecValidator == InitValidator /\ [][NextValidator]_vars

-----------------------------------------------------------------------------
(* Operation handles: one in-flight request of the bridge.                  *)
(*   payload   the caller's argument object (fields the handler reads)      *)
(*   stat      what the file system reports for the request's file path     *)
(*   argv      the argument list given to spawn; each argument is a         *)
(*             sequence of fragments, a literal of the handler or a value   *)
(*             taken from the payload                                       *)
(*   proc      none | running | failing (launch fails, 'error' pending) |   *)
(*             errored | closed                                             *)
(*   settled   pending | resolved | rejected, with its result               *)
(*   timers    the timers armed for the operation                           *)
(*   buffer    fullResponse / data                                          *)
(*   events    what the handler sent to the renderer, in order              *)
(*   wrote     what the worker wrote to stdout so far, as read from the pipe*)
(*   errno     why the launch failed; exit: the code of the 'close' event   *)
(*   killAt    whether the worker was alive when the handler signalled it   *)
(*   waited    the delays (ms) of the chained fine-tuning timers that ran   *)
(*   spawns    how many times the handler called spawn                      *)
(* The renderer that sent the request stays alive for the operation.        *)

Lit(s) == [lit |-> s, field |-> "", val |-> <<>>]
Val(f, v) == [lit |-> "", field |-> f, val |-> v]

NoPayload ==
    [query |-> JsUndefined, model |-> JsUndefined,
     filePath |-> JsUndefined, baseModel |-> JsUndefined]

NoResult == [msg |-> "", val |-> <<>>]
Failure(m) == [msg |-> m, val |-> <<>>]
Value(v) == [msg |-> "", val |-> v]

Idle ==
    [kind |-> "none", payload |-> NoPayload, stat |-> NoStat, argv |-> <<>>,
     proc |-> "none", signalled |-> FALSE, killAt |-> "none",
     settled |-> "pending", result |-> NoResult, timers |-> {},
     buffer |-> <<>>, events |-> <<>>, wrote |-> <<>>, errno |-> "", exit |-> "",
     waited |-> 0, spawns |-> 0]

\* Variant: every call settles anew.
Settle_lastCall(h, how, res) == [h EXCEPT !.settled = how, !.result = res]

\* resolve()/reject() of a Promise: only the first call settles it.
Settle(h, how, res) ==
    IF h.settled = "pending"
    THEN [h EXCEPT !.settled = how, !.result = res]
    ELSE h

Resolve(h, res) == Settle(h, "resolved", res)
Reject(h, res) == Settle(h, "rejected", res)

\* event.sender.send(channel, value) / mainWindow.webContents.send
Send(h, channel, v) == [h EXCEPT !.events = Append(@, [ch |-> channel, val |-> v])]

\* spawn(getPythonPath(), argv): the child is created; a failed launch is
\* reported later by an 'error' event.
Spawn(h, argv, launch) ==
    [h EXCEPT !.argv = argv,
              !.spawns = @ + 1,
              !.proc = IF launch = "running" THEN "running" ELSE "failing",
              !.errno = IF launch = "running" THEN "" ELSE launch]

SetTimers(h, ts) == [h EXCEPT !.timers = ts]
ClearTimeout(h, t) == [h EXCEPT !.timers = @ \ {t}]

\* pythonProcess.kill('SIGTERM')
Kill(h) ==
    [h EXCEPT !.signalled = @ \/ h.proc = "running",
              !.killAt = IF @ # "none" THEN @
                         ELSE IF h.proc = "running" THEN "live" ELSE "dead"]

\* `${value}` in a template literal: String(value).
TemplateString(v) ==
    CASE v.t = "string" -> v.s
      [] v.t = "undefined" -> <<117, 110, 100>>
      [] v.t = "number" -> <<48 + v.n>>
      [] OTHER -> <<91, 111, 93>>

\* The launch succeeds, or fails with one of the errors spawn reports by event.
Launches == {"running", "ENOENT", "EACCES", "EAGAIN"}

-----------------------------------------------------------------------------
(* Payloads the interactive surface may send. *)

QueryArgs ==
    {JsString(<<[c |-> 97, n |-> 1]>>),
     JsString(<<[c |-> 0, n |-> 1], [c |-> 10, n |-> 1]>>),
     JsString(<<[c |-> 97, n |-> 50000], [c |-> 97, n |-> 1]>>),
     JsUndefined}

ModelArgs ==
    {JsString(<<109, 49>>),
     JsString(<<98, 47, 46, 46>>),
     JsString(<<34, 41>>),
     JsUndefined}

\* baseModel, modelName and files of a fine-tuning request.
FineTuningArgs ==
    {[NoPayload EXCEPT !.baseModel = JsString(<<109, 49>>), !.model = JsString(<<109, 50>>),
                       !.filePath = JsString(<<SLASH, 97>>)],
     [NoPayload EXCEPT !.baseModel = JsString(<<109, 49>>), !.model = JsString(<<34, 41>>),
                       !.filePath = JsString(<<DOT, DOT, SLASH, 97>>)],
     [NoPayload EXCEPT !.baseModel = JsUndefined, !.model = JsString(<<98, 47, 46, 46>>),
                       !.filePath = JsString(<<>>)]}

FileArgs ==
    {JsString(<<>>),
     JsString(<<SLASH, 97>>),
     JsString(<<DOT, DOT, SLASH, 97>>),
     JsString(<<SLASH, 97, DOT, DOT, 97>>)}

FileStats ==
    {[exists |-> TRUE, size |-> 0],
     [exists |-> FALSE, size |-> 0],
     [exists |-> TRUE, size |-> MaxFileSize + 1]}

-----------------------------------------------------------------------------
(* The handlers up to the launch of the worker. *)

\* ipcMain.handle('submit-ai-query')
SubmitAiQueryStart(h, args, stat, launch) ==
    LET query == validateAndSanitizeInput(args.query, QueryMaxLength)
        model == validateModelName(args.model)
        filePath == IF Truthy(args.filePath)
                    THEN validateAndSanitizeFilePath(args.filePath, stat)
                    ELSE Ok(<<>>)
        h0 == [h EXCEPT !.kind = "query", !.payload = args, !.stat = stat]
        scriptArgs ==
            << <<Lit("-u")>>, <<Lit("run_ai.py")>>,
               <<Lit("--query")>>, <<Val("query", query.value)>>,
               <<Lit("--model")>>, <<Val("model", model.value)>> >>
            \o (IF Truthy(args.filePath)
                THEN << <<Lit("--file")>>, <<Val("filePath", filePath.value)>>,
                        <<Lit("--use-semantic-search")>> >>
                ELSE <<>>)
    IN IF ~query.ok THEN Reject(h0, Failure(query.reason))
       ELSE IF ~model.ok THEN Reject(h0, Failure(model.reason))
       ELSE IF ~filePath.ok THEN Reject(h0, Failure(filePath.reason))
       ELSE SetTimers(Spawn(h0, scriptArgs, launch), {"timeout", "completionTimeout"})

\* Variant: the worker is launched again after the first launch.
DownloadModelStart_spawnTwice(h, args, launch) ==
    LET validatedModelName == validateModelName(args.model)
        h0 == [h EXCEPT !.kind = "download", !.payload = args]
        scriptArgs ==
            << <<Lit("-u")>>, <<Lit("download_model.py")>>,
               <<Lit("--model")>>, <<Val("model", validatedModelName.value)>> >>
    IN IF ~validatedModelName.ok THEN Reject(h0, Failure(validatedModelName.reason))
       ELSE SetTimers(Spawn(Spawn(h0, scriptArgs, launch), scriptArgs, launch), {"timeout"})

\* ipcMain.handle('download-model')
DownloadModelStart(h, args, launch) ==
    LET validatedModelName == validateModelName(args.model)
        h0 == [h EXCEPT !.kind = "download", !.payload = args]
        scriptArgs ==
            << <<Lit("-u")>>, <<Lit("download_model.py")>>,
               <<Lit("--model")>>, <<Val("model", validatedModelName.value)>> >>
    IN IF ~validatedModelName.ok THEN Reject(h0, Failure(validatedModelName.reason))
       ELSE SetTimers(Spawn(h0, scriptArgs, launch), {"timeout"})

\* ipcMain.handle('delete-model'): every failure is a resolved error object.
DeleteModelStart_rawName(h, args, launch) ==
    LET h0 == [h EXCEPT !.kind = "delete", !.payload = args]
        scriptArgs ==
            << <<Lit("delete_model.py")>>, <<Val("model", TemplateString(args.model))>> >>
    IN SetTimers(Spawn(h0, scriptArgs, launch), {"timeout"})
DeleteModelStart(h, args, launch) ==
    LET validatedModelName == validateModelName(args.model)
        h0 == [h EXCEPT !.kind = "delete", !.payload = args]
        scriptArgs ==
            << <<Lit("delete_model.py")>>, <<Val("model", validatedModelName.value)>> >>
    IN IF ~validatedModelName.ok
       THEN Resolve(h0, Failure(validatedModelName.reason))
       ELSE SetTimers(Spawn(h0, scriptArgs, launch), {"timeout"})

\* ipcMain.handle('start-fine-tuning'): the worker program is an inline
\* script into which JSON.stringify(args) is spliced.
StartFineTuningStart(h, args, launch) ==
    LET h0 == [h EXCEPT !.kind = "finetune", !.payload = args]
        program ==
            <<Lit("import sys, json; sys.path.append(scriptDir); from fine_tuning import fine_tuning_manager; args = "),
              Val("args", <<args>>),
              Lit("; result = fine_tuning_manager.start_fine_tuning(...); print(json.dumps(result))")>>
    IN SetTimers(Spawn(h0, << <<Lit("-c")>>, program >>, launch), {"timeout"})

\* ipcMain.handle('export-fine-tuned-model'): modelName is spliced into
\* the inline script between double quotes.
ExportFineTunedModelStart(h, args, launch) ==
    LET h0 == [h EXCEPT !.kind = "export", !.payload = args]
        program ==
            <<Lit("import sys, json; sys.path.append(scriptDir); from fine_tuning import fine_tuning_manager; result = fine_tuning_manager.export_to_ollama(\""),
              Val("model", TemplateString(args.model)),
              Lit("\"); print(json.dumps(result))")>>
    IN SetTimers(Spawn(h0, << <<Lit("-c")>>, program >>, launch), {"timeout"})

\* get-ai-options, get-model-info, check-system-requirements and
\* get-dashboard-data take no payload and run a fixed script.
ScriptOf(kind) ==
    CASE kind = "options" -> "get_ai_options.py"
      [] kind = "modelinfo" -> "get_model_info.py"
      [] kind = "syscheck" -> "lightweight_system_check.py"
      [] kind = "dashboard" -> "dashboard_api.py"

NoPayloadStart(h, kind, launch) ==
    SetTimers(Spawn([h EXCEPT !.kind = kind], << <<Lit(ScriptOf(kind))>> >>, launch),
              {"timeout"})

NoPayloadKinds == {"options", "modelinfo", "syscheck", "dashboard"}

-----------------------------------------------------------------------------
(* Requests arriving over the bridge. *)

SubmitAiQuery(i) ==
    /\ op[i].kind = "none"
    /\ \E q \in QueryArgs, m \in ModelArgs, f \in FileArgs,
          st \in FileStats, launch \in Launches :
          /\ ~Truthy(f) => st = [exists |-> FALSE, size |-> 0]
          /\ op' = [op EXCEPT ![i] =
                SubmitAiQueryStart(@, [NoPayload EXCEPT !.query = q, !.model = m,
                                                        !.filePath = f], st, launch)]
    /\ UNCHANGED <<validatorVars, bootVars, uiVars>>

DownloadModel(i) ==
    /\ op[i].kind = "none"
    /\ \E m \in ModelArgs, launch \in Launches :
          op' = [op EXCEPT ![i] =
                DownloadModelStart(@, [NoPayload EXCEPT !.model = m], launch)]
    /\ UNCHANGED <<validatorVars, bootVars, uiVars>>

DeleteModel(i) ==
    /\ op[i].kind = "none"
    /\ \E m \in ModelArgs, launch \in Launches :
          op' = [op EXCEPT ![i] =
                DeleteModelStart(@, [NoPayload EXCEPT !.model = m], launch)]
    /\ UNCHANGED <<validatorVars, bootVars, uiVars>>

StartFineTuning(i) ==
    /\ op[i].kind = "none"
    /\ \E args \in FineTuningArgs, launch \in Launches :
          op' = [op EXCEPT ![i] = StartFineTuningStart(@, args, launch)]
    /\ UNCHANGED <<validatorVars, bootVars, uiVars>>

ExportFineTunedModel(i) ==
    /\ op[i].kind = "none"
    /\ \E m \in ModelArgs, launch \in Launches :
          op' = [op EXCEPT ![i] =
                ExportFineTunedModelStart(@, [NoPayload EXCEPT !.model = m], launch)]
    /\ UNCHANGED <<validatorVars, bootVars, uiVars>>

NoPayloadRequest(i) ==
    /\ op[i].kind = "none"
    /\ \E kind \in NoPayloadKinds, launch \in Launches :
          op' = [op EXCEPT ![i] = NoPayloadStart(@, kind, launch)]
    /\ UNCHANGED <<validatorVars, bootVars, uiVars>>

-----------------------------------------------------------------------------
(* Raw streaming (chat): stdout bytes, decoded chunk by chunk. *)

MaxBytes == 3

\* 'H', 'i' and the two bytes of U+00E9 in UTF-8.
QueryBytes == {72, 105, 195, 169}

IsLead2(b) == b >= 194 /\ b <= 223
IsCont(b) == b >= 128 /\ b <= 191
ReplacementChar == 65533

RECURSIVE Utf8Decode(_)
\* Buffer.prototype.toString('utf8') for one- and two-byte sequences: an
\* incomplete or stray byte decodes to U+FFFD.
Utf8Decode(bytes) ==
    IF bytes = <<>> THEN <<>>
    ELSE IF IsLead2(bytes[1])
    THEN IF Len(bytes) >= 2 /\ IsCont(bytes[2])
         THEN <<(bytes[1] - 192) * 64 + (bytes[2] - 128)>>
              \o Utf8Decode(SubSeq(bytes, 3, Len(bytes)))
         ELSE <<ReplacementChar>> \o Utf8Decode(Tail(bytes))
    ELSE IF IsCont(bytes[1])
    THEN <<ReplacementChar>> \o Utf8Decode(Tail(bytes))
    ELSE <<bytes[1]>> \o Utf8Decode(Tail(bytes))

\* The worker writes well-formed UTF-8; the pipe may cut it anywhere.
WellFormedPrefix(bytes) ==
    \A k \in 1..Len(bytes) :
        /\ IsCont(bytes[k]) => (k > 1 /\ IsLead2(bytes[k - 1]))
        /\ (IsLead2(bytes[k]) /\ k < Len(bytes)) => IsCont(bytes[k + 1])

\* pythonProcess.stdout.on('data') of submit-ai-query
QueryOnData_overwrite(h, data) ==
    LET text == Utf8Decode(data)
    IN Send([h EXCEPT !.buffer = text, !.wrote = @ \o data], "ai-stream", text)
QueryOnData(h, data) ==
    LET text == Utf8Decode(data)
    IN Send([h EXCEPT !.buffer = @ \o text, !.wrote = @ \o data], "ai-stream", text)

\* The worker of query i writes, at most maxBytes bytes in all.
QueryRead(i, maxBytes) ==
    /\ op[i].kind = "query"
    /\ op[i].proc = "running"
    /\ \E data \in SeqsUpTo(QueryBytes, maxBytes) \ {<<>>} :
          /\ Len(op[i].wrote) + Len(data) <= maxBytes
          /\ WellFormedPrefix(op[i].wrote \o data)
          /\ op' = [op EXCEPT ![i] = QueryOnData(@, data)]
    /\ UNCHANGED <<validatorVars, bootVars, uiVars>>

QueryStdoutData(i) == QueryRead(i, MaxBytes)

-----------------------------------------------------------------------------
(* Line-delimited structured streaming (download progress).  A line of the  *)
(* worker is read whole, or cut by the pipe into a head that ends one chunk *)
(* and a tail that begins the next.                                         *)

MaxLines == 3
MaxFtLines == 2
MaxChunkLines == 2

Frame(st, pr, sg) == [status |-> st, progress |-> pr, stage |-> sg]
NoFrame == Frame("", 0, "")

JsonLine(f) == [text |-> "json", frame |-> f]
GarbageLine == [text |-> "garbage", frame |-> NoFrame]
BlankLine == [text |-> "blank", frame |-> NoFrame]

DownloadLines ==
    {JsonLine(Frame("pulling manifest", 50, "downloading layers")),
     JsonLine(Frame("Model installed successfully!", 100, "complete")),
     JsonLine(Frame("Cannot be installed", 0, "error")),
     JsonLine(Frame("connection lost", 0, "error")),
     GarbageLine,
     BlankLine}

Fragment(l, p) == [line |-> l, part |-> p]

\* The chunks the pipe can deliver next, given what was read so far: the
\* tail of a cut line, then whole lines, then possibly the head of a line.
ChunksAfter(wrote, lines, maxLines) ==
    LET cut == wrote # <<>> /\ Last(wrote).part = "head"
        pre == IF cut THEN <<Fragment(Last(wrote).line, "tail")>> ELSE <<>>
        linesRead == Cardinality({k \in 1..Len(wrote) : wrote[k].part # "tail"})
        wholes == {Fragment(l, "whole") : l \in lines}
        heads == {<<Fragment(l, "head")>> : l \in {x \in lines : x.text # "blank"}}
        room == IF maxLines - linesRead < MaxChunkLines - Len(pre)
                THEN maxLines - linesRead ELSE MaxChunkLines - Len(pre)
        bodies == {m \o t : m \in SeqsUpTo(wholes, room), t \in heads \cup {<<>>}}
    IN {pre \o b : b \in {x \in bodies :
                            /\ Len(pre) + Len(x) >= 1
                            /\ Len(pre) + Len(x) <= MaxChunkLines
                            /\ linesRead + Len(x) <= maxLines}}

\* line.trim() is truthy
LineHasText(frag) == frag.line.text # "blank"

\* JSON.parse(line) succeeds only on a whole record: neither a proper prefix
\* nor a proper suffix of a JSON object is JSON.
JsonParses(frag) == frag.line.text = "json" /\ frag.part = "whole"

SyntheticErrorFrame == Frame("Error parsing progress data", 0, "error")

IsTerminalFrame(f) ==
    f.progress = 100 \/ f.status = "Cannot be installed" \/ f.stage = "complete"

\* Variant: the parse error is reported on the chat channel.
DownloadOnLine_aiStream(h, frag) ==
    IF ~LineHasText(frag) THEN h
    ELSE IF JsonParses(frag)
    THEN LET progress == frag.line.frame
             h1 == Send(h, "download-progress", progress)
         IN IF IsTerminalFrame(progress)
            THEN Resolve(ClearTimeout(h1, "timeout"), Value(<<progress>>))
            ELSE h1
    ELSE Send(h, "ai-stream", SyntheticErrorFrame)

\* The body of the forEach over data.toString().split('\n').
DownloadOnLine(h, frag) ==
    IF ~LineHasText(frag) THEN h
    ELSE IF JsonParses(frag)
    THEN LET progress == frag.line.frame
             h1 == Send(h, "download-progress", progress)
         IN IF IsTerminalFrame(progress)
            THEN Resolve(ClearTimeout(h1, "timeout"), Value(<<progress>>))
            ELSE h1
    ELSE Send(h, "download-progress", SyntheticErrorFrame)

RECURSIVE DownloadOnLines(_, _)
DownloadOnLines(h, frags) ==
    IF frags = <<>> THEN h
    ELSE DownloadOnLines(DownloadOnLine(h, Head(frags)), Tail(frags))

\* pythonProcess.stdout.on('data') of download-model
DownloadOnData(h, data) ==
    DownloadOnLines([h EXCEPT !.wrote = @ \o data], data)

\* The worker of download i writes lines, at most maxLines in all.
DownloadRead(i, lines, maxLines) ==
    /\ op[i].kind = "download"
    /\ op[i].proc = "running"
    /\ \E data \in ChunksAfter(op[i].wrote, lines, maxLines) :
          op' = [op EXCEPT ![i] = DownloadOnData(@, data)]
    /\ UNCHANGED <<validatorVars, bootVars, uiVars>>

DownloadStdoutData(i) == DownloadRead(i, DownloadLines, MaxLines)

-----------------------------------------------------------------------------
(* start-fine-tuning: the output is accumulated and also scanned, chunk by  *)
(* chunk, for 'PROGRESS_UPDATE: ' lines.                                    *)

FtProgress(sg, pct, m, w) == [stage |-> sg, percentage |-> pct, message |-> m, warning |-> w]
NoFtProgress == FtProgress("", 0, "", FALSE)

FineTuningLines ==
    {[text |-> "progress", frame |-> FtProgress("Training", 50, "epoch 1", FALSE)],
     [text |-> "badprogress", frame |-> NoFtProgress],
     [text |-> "json", frame |-> NoFtProgress],
     [text |-> "garbage", frame |-> NoFtProgress]}

\* line.startsWith('PROGRESS_UPDATE: ')
StartsWithProgressUpdate(frag) ==
    frag.line.text \in {"progress", "badprogress"} /\ frag.part \in {"whole", "head"}

\* JSON.parse(line.replace('PROGRESS_UPDATE: ', '')) succeeds
ProgressParses(frag) == frag.line.text = "progress" /\ frag.part = "whole"

FineTuningOnLine(h, frag) ==
    IF StartsWithProgressUpdate(frag) /\ ProgressParses(frag)
    THEN Send(h, "fine-tuning-progress", frag.line.frame)
    ELSE h

RECURSIVE FineTuningOnLines(_, _)
FineTuningOnLines(h, frags) ==
    IF frags = <<>> THEN h
    ELSE FineTuningOnLines(FineTuningOnLine(h, Head(frags)), Tail(frags))

\* pythonProcess.stdout.on('data') of start-fine-tuning
FineTuningOnData(h, data) ==
    FineTuningOnLines([h EXCEPT !.buffer = @ \o data, !.wrote = @ \o data], data)

FineTuningStdoutData(i) ==
    /\ op[i].kind = "finetune"
    /\ op[i].proc = "running"
    /\ \E data \in ChunksAfter(op[i].wrote, FineTuningLines, MaxFtLines) :
          op' = [op EXCEPT ![i] = FineTuningOnData(@, data)]
    /\ UNCHANGED <<validatorVars, bootVars, uiVars>>

\* JSON.parse(data) of the accumulated fine-tuning output: it must be one
\* JSON document and nothing else.
FineTuningDataParses(buffer) ==
    \/ Len(buffer) = 1 /\ buffer[1].line.text = "json" /\ buffer[1].part = "whole"
    \/ /\ Len(buffer) = 2
       /\ buffer[1].line.text = "json" /\ buffer[1].part = "head"
       /\ buffer[2].part = "tail"

-----------------------------------------------------------------------------
(* Buffered protocols: the output is accumulated and parsed on 'close'.     *)

MaxTokens == 2

BufferedKinds == {"options", "modelinfo", "delete", "syscheck", "export", "dashboard"}

\* Pieces of output: whitespace, one JSON document, anything else.
OutputTokens == {"ws", "json", "junk"}

\* data.trim()
DataTrim(buffer) == SelectSeq(buffer, LAMBDA t : t # "ws")

\* JSON.parse(data) succeeds
DataParses(buffer) == DataTrim(buffer) = <<"json">>

\* pythonProcess.stdout.on('data'): data += chunk
BufferedOnData(h, chunk) == [h EXCEPT !.buffer = Append(@, chunk), !.wrote = Append(@, chunk)]

BufferedStdoutData(i) ==
    /\ op[i].kind \in BufferedKinds
    /\ op[i].proc = "running"
    /\ Len(op[i].wrote) < MaxTokens
    /\ \E chunk \in OutputTokens :
          op' = [op EXCEPT ![i] = BufferedOnData(@, chunk)]
    /\ UNCHANGED <<validatorVars, bootVars, uiVars>>

ParsedJson == Value(<<"json">>)
NoModelsFound == Value(<<"No models found">>)
EmptyList == Value(<<>>)

-----------------------------------------------------------------------------
(* Timers. *)

QueryTimeoutMessage ==
    "Request timeout - process took too long. Try asking a more specific question or breaking it into smaller parts."
FineTuningTimeoutMessage ==
    "Fine-tuning start timeout - model preparation is taking longer than expected. Please try again or check your internet connection."

\* The delays of the three chained timers of start-fine-tuning (ms).
FineTuningDeadline == 10 * 60 * 1000
GraceDelay == 90 * 1000
FinalDelay == 30 * 1000

\* A timer armed for `delay` ms has run.
Elapse(h, delay) == [h EXCEPT !.waited = @ + delay]

\* Variant: the deadline rejects whatever the kind.
OnTimeout_alwaysReject(h) ==
    Reject(Kill(ClearTimeout(h, "timeout")), Failure("timeout"))

\* The callback of the operation's deadline timer `timeout`.
OnTimeout(h) ==
    LET h0 == ClearTimeout(h, "timeout")
    IN CASE h.kind = "query" -> Reject(Kill(h0), Failure(QueryTimeoutMessage))
         [] h.kind = "download" ->
              Reject(Kill(h0), Failure("Download timeout - process took too long"))
         [] h.kind = "options" -> Resolve(Kill(h0), NoModelsFound)
         [] h.kind = "modelinfo" -> Resolve(Kill(h0), EmptyList)
         [] h.kind = "delete" -> Resolve(Kill(h0), Failure("Delete operation timed out"))
         [] h.kind = "syscheck" ->
              Reject(Kill(h0), Failure("System requirements check timeout"))
         [] h.kind = "export" -> Resolve(Kill(h0), Failure("Export timeout"))
         [] h.kind = "dashboard" -> Reject(Kill(h0), Failure("Dashboard data timeout"))
         [] h.kind = "finetune" ->
              SetTimers(Send(Elapse(h0, FineTuningDeadline), "fine-tuning-progress",
                             FtProgress("Timeout Warning", 95, "Process is taking longer than expected. This might be due to slow internet connection or large model download. Please wait...", TRUE)),
                        h0.timers \cup {"grace"})

\* Timers with a delay cannot run before the 'error' and 'close' events of
\* a failed launch, which are emitted on the next tick.
TimersMayFire(h) == h.proc \notin {"failing", "errored"}

DeadlineTimer(i) ==
    /\ "timeout" \in op[i].timers
    /\ "completionTimeout" \notin op[i].timers
    /\ TimersMayFire(op[i])
    /\ op' = [op EXCEPT ![i] = OnTimeout(@)]
    /\ UNCHANGED <<validatorVars, bootVars, uiVars>>

\* completionTimeout of submit-ai-query (10 s)
OnCompletionTimeout(h) ==
    Send(ClearTimeout(h, "completionTimeout"), "ai-stream-complete", <<>>)

CompletionTimer(i) ==
    /\ "completionTimeout" \in op[i].timers
    /\ TimersMayFire(op[i])
    /\ op' = [op EXCEPT ![i] = OnCompletionTimeout(@)]
    /\ UNCHANGED <<validatorVars, bootVars, uiVars>>

\* Variant: the worker is terminated when the grace extension ends.
OnGraceTimeout_killNow(h) ==
    Reject(Kill(ClearTimeout(Elapse(h, GraceDelay), "grace")), Failure(FineTuningTimeoutMessage))

\* The 90 s timer armed by the fine-tuning deadline.
OnGraceTimeout(h) ==
    SetTimers(Send(Elapse(h, GraceDelay), "fine-tuning-progress",
                   FtProgress("Final Warning", 98, "Process will be terminated in 30 seconds if no progress is made...", TRUE)),
              (h.timers \ {"grace"}) \cup {"final"})

GraceTimer(i) ==
    /\ "grace" \in op[i].timers
    /\ op' = [op EXCEPT ![i] = OnGraceTimeout(@)]
    /\ UNCHANGED <<validatorVars, bootVars, uiVars>>

\* The final 30 s timer of fine-tuning.
OnFinalTimeout(h) ==
    Reject(Kill(ClearTimeout(Elapse(h, FinalDelay), "final")), Failure(FineTuningTimeoutMessage))

FinalTimer(i) ==
    /\ "final" \in op[i].timers
    /\ op' = [op EXCEPT ![i] = OnFinalTimeout(@)]
    /\ UNCHANGED <<validatorVars, bootVars, uiVars>>

-----------------------------------------------------------------------------
(* 'close' and 'error' of the worker process. *)

ExitCodes == {"0", "1", "2", "3", "4", "5"}

\* The exit code 'close' reports after a failed launch.
ErrnoExit(errno) ==
    CASE errno = "ENOENT" -> "-2"
      [] errno = "EACCES" -> "-13"
      [] errno = "EAGAIN" -> "-11"

\* Variant: exit code 4 is not told apart.
FineTuningExitMessage_noNetwork(code) ==
    CASE code = "1" -> "Model preparation failed - check if the base model is available in Ollama"
      [] code = "2" -> "Training data validation failed - check your uploaded files"
      [] code = "3" -> "System requirements not met - insufficient RAM or storage"
      [] OTHER -> "Fine-tuning start failed"

FineTuningExitMessage(code) ==
    CASE code = "1" -> "Model preparation failed - check if the base model is available in Ollama"
      [] code = "2" -> "Training data validation failed - check your uploaded files"
      [] code = "3" -> "System requirements not met - insufficient RAM or storage"
      [] code = "4" -> "Network error - check your internet connection"
      [] OTHER -> "Fine-tuning start failed"

\* pythonProcess.on('close')
OnClose(h, code) ==
    LET h0 == ClearTimeout(h, "timeout")
        hasData == DataTrim(h.buffer) # <<>>
    IN CASE h.kind = "query" ->
              LET h1 == Send(ClearTimeout(h0, "completionTimeout"), "ai-stream-complete", <<>>)
              IN IF code = "0" THEN Resolve(h1, Value(h.buffer))
                 ELSE Reject(h1, Failure("Python process exited with code " \o code))
         [] h.kind = "download" ->
              IF code # "0"
              THEN Reject(h0, Failure("Download process exited with code " \o code))
              ELSE h0
         [] h.kind = "options" ->
              IF hasData /\ DataParses(h.buffer) THEN Resolve(h0, ParsedJson)
              ELSE Resolve(h0, NoModelsFound)
         [] h.kind = "modelinfo" ->
              IF hasData /\ DataParses(h.buffer) THEN Resolve(h0, ParsedJson)
              ELSE Resolve(h0, EmptyList)
         [] h.kind = "delete" ->
              IF ~hasData
              THEN Resolve(h0, Failure("No response from delete operation"))
              ELSE IF DataParses(h.buffer) THEN Resolve(h0, ParsedJson)
              ELSE Resolve(h0, Failure("Failed to parse delete result"))
         [] h.kind = "syscheck" ->
              IF code = "0" /\ hasData
              THEN IF DataParses(h.buffer) THEN Resolve(h0, ParsedJson)
                   ELSE Reject(h0, Failure("SyntaxError"))
              ELSE Reject(h0, Failure("System requirements check failed"))
         [] h.kind = "export" ->
              IF code = "0" /\ hasData
              THEN IF DataParses(h.buffer) THEN Resolve(h0, ParsedJson)
                   ELSE Resolve(h0, Failure("Failed to parse export result"))
              ELSE Resolve(h0, Failure("Export failed"))
         [] h.kind = "dashboard" ->
              IF code = "0" /\ hasData
              THEN IF DataParses(h.buffer) THEN Resolve(h0, ParsedJson)
                   ELSE Reject(h0, Failure("Failed to parse dashboard data"))
              ELSE Reject(h0, Failure("Failed to get dashboard data"))
         [] h.kind = "finetune" ->
              IF code = "0" /\ h.buffer # <<>>
              THEN IF FineTuningDataParses(h.buffer) THEN Resolve(h0, ParsedJson)
                   ELSE Reject(h0, Failure("Failed to parse fine-tuning result - check the console for details"))
              ELSE Reject(h0, Failure(FineTuningExitMessage(code)))

\* The worker of operation i is gone: a launched worker reports one of
\* `codes`, a failed launch the code of its error.
CloseWith(i, codes) ==
    /\ op[i].proc \in {"running", "errored"}
    /\ \E code \in codes \cup {"-2", "-13", "-11"} :
          /\ op[i].proc = "running" => code \in codes
          /\ op[i].proc = "errored" => code = ErrnoExit(op[i].errno)
          /\ op' = [op EXCEPT ![i] = [OnClose(@, code) EXCEPT !.proc = "closed", !.exit = code]]
    /\ UNCHANGED <<validatorVars, bootVars, uiVars>>

ProcessClose(i) == CloseWith(i, ExitCodes \cup {"null"})

\* error.message of a failed spawn
SpawnErrorMessage(errno) == "spawn python3 " \o errno

\* pythonProcess.on('error')
OnError(h) ==
    LET h0 == ClearTimeout(h, "timeout")
        message == SpawnErrorMessage(h.errno)
    IN CASE h.kind = "query" ->
              Reject(h0, Failure("Failed to start Python process: " \o message))
         [] h.kind = "download" ->
              Reject(h0, Failure("Failed to start download process: " \o message))
         [] h.kind = "options" -> Resolve(h0, NoModelsFound)
         [] h.kind = "modelinfo" -> Resolve(h0, EmptyList)
         [] h.kind = "delete" -> Resolve(h0, Failure("Failed to start delete operation"))
         [] h.kind = "syscheck" ->
              Reject(h0, Failure("Failed to check system requirements: " \o message))
         [] h.kind = "export" ->
              Resolve(h0, Failure("Failed to start export: " \o message))
         [] h.kind = "dashboard" ->
              Reject(h0, Failure("Failed to start dashboard API: " \o message))
         [] h.kind = "finetune" ->
              Reject(h0, Failure(
                  CASE h.errno = "ENOENT" -> "Python script not found - please reinstall the application"
                    [] h.errno = "EACCES" -> "Permission denied - check file permissions"
                    [] h.errno = "ENOMEM" -> "Insufficient memory to start fine-tuning process"
                    [] OTHER -> "Failed to start fine-tuning: " \o message))

ProcessError(i) ==
    /\ op[i].proc = "failing"
    /\ op' = [op EXCEPT ![i] = [OnError(@) EXCEPT !.proc = "errored"]]
    /\ UNCHANGED <<validatorVars, bootVars, uiVars>>

-----------------------------------------------------------------------------
(* Specification of the bridge: one operation handle. *)

NoCall == [fn |-> "none", arg |-> JsUndefined, maxLength |-> 0, stat |-> NoStat]

Init ==
    /\ vcall = NoCall
    /\ vret = NotCalled
    /\ op = <<Idle>>
    /\ boot = Started
    /\ ui = SurfaceIdle

Next ==
    \/ \E i \in DOMAIN op : SubmitAiQuery(i)
    \/ \E i \in DOMAIN op : DownloadModel(i)
    \/ \E i \in DOMAIN op : DeleteModel(i)
    \/ \E i \in DOMAIN op : StartFineTuning(i)
    \/ \E i \in DOMAIN op : ExportFineTunedModel(i)
    \/ \E i \in DOMAIN op : NoPayloadRequest(i)
    \/ \E i \in DOMAIN op : QueryStdoutData(i)
    \/ \E i \in DOMAIN op : DownloadStdoutData(i)
    \/ \E i \in DOMAIN op : FineTuningStdoutData(i)
    \/ \E i \in DOMAIN op : BufferedStdoutData(i)
    \/ \E i \in DOMAIN op : DeadlineTimer(i)
    \/ \E i \in DOMAIN op : CompletionTimer(i)
    \/ \E i \in DOMAIN op : GraceTimer(i)
    \/ \E i \in DOMAIN op : FinalTimer(i)
    \/ \E i \in DOMAIN op : ProcessClose(i)
    \/ \E i \in DOMAIN op : ProcessError(i)

Spec == Init /\ [][Next]_vars

-----------------------------------------------------------------------------
(* Specification of two operations in flight at the host at the same time:  *)
(* chat queries and downloads sent by the one application window, with      *)
(* accepted payloads and workers that start.                                *)

MaxPairBytes == 1
MaxPairLines == 1

PairQueryArgs ==
    [NoPayload EXCEPT !.query = JsString(<<[c |-> 97, n |-> 1]>>),
                      !.model = JsString(<<109, 49>>)]
PairDownloadArgs == [NoPayload EXCEPT !.model = JsString(<<109, 49>>)]

PairLines ==
    {JsonLine(Frame("pulling manifest", 50, "downloading layers")),
     JsonLine(Frame("Model installed successfully!", 100, "complete"))}

PairExitCodes == {"0", "1"}

ConcurrentQuery(i) ==
    /\ op[i].kind = "none"
    /\ op' = [op EXCEPT ![i] = SubmitAiQueryStart(@, PairQueryArgs, NoStat, "running")]
    /\ UNCHANGED <<validatorVars, bootVars, uiVars>>

ConcurrentDownload(i) ==
    /\ op[i].kind = "none"
    /\ op' = [op EXCEPT ![i] = DownloadModelStart(@, PairDownloadArgs, "running")]
    /\ UNCHANGED <<validatorVars, bootVars, uiVars>>

InitConcurrent ==
    /\ vcall = NoCall
    /\ vret = NotCalled
    /\ op = <<Idle, Idle>>
    /\ boot = Started
    /\ ui = SurfaceIdle

NextConcurrent ==
    \/ \E i \in DOMAIN op : ConcurrentQuery(i)
    \/ \E i \in DOMAIN op : ConcurrentDownload(i)
    \/ \E i \in DOMAIN op : QueryRead(i, MaxPairBytes)
    \/ \E i \in DOMAIN op : DownloadRead(i, PairLines, MaxPairLines)
    \/ \E i \in DOMAIN op : DeadlineTimer(i)
    \/ \E i \in DOMAIN op : CompletionTimer(i)
    \/ \E i \in DOMAIN op : CloseWith(i, PairExitCodes)

SpecConcurrent == InitConcurrent /\ [][NextConcurrent]_vars

-----------------------------------------------------------------------------
(* Start-up of the host and the operations on the conversation store.       *)

\* Exit codes of `ollama --version`; "-2" is the close after a failed
\* launch, "hang" a failed launch after which no close is delivered (the
\* process has no 'error' listener).
VersionOutcomes == {"0", "1", "-2", "hang"}

\* The launch of the import test, and the exit codes of one that ran
\* ("null" when a signal ended it).
PythonLaunches == {"running", "failing"}
PythonExitCodes == {"0", "1", "null"}

\* Buttons of the 'Ollama Required' dialog, by index.
DialogResponses == {0, 1, 2}

InitStartup ==
    /\ vcall = NoCall
    /\ vret = NotCalled
    /\ op = <<Idle>>
    /\ \E platform \in Platforms, fs \in FileSystems, store \in StoreStates,
          launch \in PythonLaunches :
            boot = NotStarted(platform, fs, store, launch)
    /\ ui = SurfaceIdle

\* testProcess.on('close'): code 0 resolves, any other code rejects.  A
\* process that was not signalled does not end by a signal; a failed launch
\* closes with its error code.
PythonClose ==
    /\ boot.pyProc \in {"running", "errored"}
    /\ \E code \in PythonExitCodes \cup {"-2"} :
          /\ boot.pyProc = "errored" <=> code = "-2"
          /\ code = "null" => boot.pyKilled
          /\ boot' = validatePythonSettle(
                        [boot EXCEPT !.pyProc = "closed", !.pyExit = code],
                        IF code = "0" THEN "resolved" ELSE "rejected", "close")
    /\ UNCHANGED <<validatorVars, opVars, uiVars>>

\* testProcess.on('error'): the launch failed.
PythonError ==
    /\ boot.pyProc = "failing"
    /\ boot' = validatePythonSettle([boot EXCEPT !.pyProc = "errored"], "rejected", "error")
    /\ UNCHANGED <<validatorVars, opVars, uiVars>>

\* The 10 s timer, which nothing clears: testProcess.kill() and reject.  It
\* cannot run before the 'error' and 'close' of a failed launch.
PythonTimer ==
    /\ boot.pyTimer = "set"
    /\ boot.pyProc \in {"running", "closed"}
    /\ boot' = validatePythonSettle(
                  [boot EXCEPT !.pyTimer = "fired",
                               !.pyKilled = boot.pyProc = "running"],
                  "rejected", "timer")
    /\ UNCHANGED <<validatorVars, opVars, uiVars>>

\* The first probe of ensureOllamaAvailable.
AvailableProbe ==
    /\ boot.pc = "available"
    /\ \E reply \in ProbeReplies :
            boot' = IF isOllamaRunning(reply)
                    THEN Resume(boot, "true")
                    ELSE [boot EXCEPT !.pc = "version"]
    /\ UNCHANGED <<validatorVars, opVars, uiVars>>

\* `ollama --version` closes, or never does.
VersionCheck ==
    /\ boot.pc = "version"
    /\ \E out \in VersionOutcomes :
            boot' = CASE out = "0" -> [boot EXCEPT !.pc = "ensure"]
                      [] out = "hang" -> [boot EXCEPT !.pc = "hung"]
                      [] OTHER -> [boot EXCEPT !.pc = "dialog"]
    /\ UNCHANGED <<validatorVars, opVars, uiVars>>

\* The user answers the 'Ollama Required' dialog.
AnswerDialog ==
    /\ boot.pc = "dialog"
    /\ \E response \in DialogResponses :
            boot' = CASE response = 0 -> Resume([boot EXCEPT !.external = TRUE], "false")
                      [] response = 1 -> [boot EXCEPT !.pc = "ensure"]
                      [] OTHER -> Resume(boot, "false")
    /\ UNCHANGED <<validatorVars, opVars, uiVars>>

\* ensureOllamaRunning: the first probe and, when it fails, the launch.
EnsureFirstProbe ==
    /\ boot.pc = "ensure"
    /\ \E reply \in ProbeReplies : boot' = Returned(EnsureFirst(boot, reply))
    /\ UNCHANGED <<validatorVars, opVars, uiVars>>

\* ensureOllamaRunning: one turn of the loop.
EnsureRetry ==
    /\ boot.pc = "retry"
    /\ boot.running = "none"
    /\ boot.probes < OllamaStartAttempts
    /\ \E reply \in ProbeReplies : boot' = Returned(EnsureLoop(boot, reply))
    /\ UNCHANGED <<validatorVars, opVars, uiVars>>

\* ipcMain.handle('clear-chat'), which only a page of the main window calls.
ClearChat ==
    /\ boot.pc = "ready"
    /\ boot.window = "main"
    /\ boot.clears < MaxClears
    /\ boot' = IF boot.fs = "ok"
               THEN [boot EXCEPT !.clears = @ + 1, !.store = "empty",
                                 !.writes = @ + 1, !.cleared = "true"]
               ELSE [boot EXCEPT !.clears = @ + 1, !.cleared = "rejected"]
    /\ UNCHANGED <<validatorVars, opVars, uiVars>>

\* The user closes the window; 'window-all-closed' quits except on macOS.
CloseWindow ==
    /\ boot.pc = "ready"
    /\ boot.window # "none"
    /\ boot' = [boot EXCEPT !.window = "none",
                            !.pc = IF boot.platform = "darwin" THEN "ready" ELSE "quit"]
    /\ UNCHANGED <<validatorVars, opVars, uiVars>>

\* 'activate' on macOS, registered only after the checks passed.
Activate ==
    /\ boot.pc = "ready"
    /\ boot.platform = "darwin"
    /\ boot.checks = "true"
    /\ boot.window = "none"
    /\ boot' = createWindow(boot)
    /\ UNCHANGED <<validatorVars, opVars, uiVars>>

NextStartup ==
    \/ PythonClose
    \/ PythonError
    \/ PythonTimer
    \/ AvailableProbe
    \/ VersionCheck
    \/ AnswerDialog
    \/ EnsureFirstProbe
    \/ EnsureRetry
    \/ ClearChat
    \/ CloseWindow
    \/ Activate

SpecStartup == InitStartup /\ [][NextStartup]_vars

\* Every probe settles (by reply, error or its 3 s limit) and the 500 ms
\* wait ends, so ensureOllamaRunning takes its next step.
SpecStartupLive == SpecStartup /\ WF_vars(EnsureFirstProbe) /\ WF_vars(EnsureRetry)

-----------------------------------------------------------------------------
(* The chat surface: submits, the file dialog, and the settlement of the    *)
(* chat request by the host.                                                *)

InitSurface ==
    /\ vcall = NoCall
    /\ vret = NotCalled
    /\ op = <<Idle>>
    /\ boot = Started
    /\ ui = SurfaceIdle

\* A click on the submit button (or Enter in the query box).
HandleSubmit ==
    /\ \E query \in QueryInputs, model \in ModelSelections :
          ui' = handleSubmit(ui, query, model)
    /\ ui'.sent <= MaxQueries
    /\ UNCHANGED <<validatorVars, opVars, bootVars>>

\* A click on the upload button, which is disabled while loading.
OpenFileDialog ==
    /\ ui.inputEnabled
    /\ ~ui.dialogOpen
    /\ ui' = [ui EXCEPT !.dialogOpen = TRUE]
    /\ UNCHANGED <<validatorVars, opVars, bootVars>>

\* handleFileUpload after its await: a chosen path is kept.
FileDialogClosed ==
    /\ ui.dialogOpen
    /\ \E filePath \in {"", "/a"} :
          ui' = [ui EXCEPT !.dialogOpen = FALSE,
                           !.selectedFilePath = IF filePath # "" THEN filePath ELSE @]
    /\ UNCHANGED <<validatorVars, opVars, bootVars>>

\* The host resolves the chat request.
RequestResolves ==
    /\ ui.inFlight > 0
    /\ ui' = SubmitResolved(ui)
    /\ UNCHANGED <<validatorVars, opVars, bootVars>>

\* The host rejects the chat request.
RequestRejects ==
    /\ ui.inFlight > 0
    /\ ui' = SubmitRejected(ui)
    /\ UNCHANGED <<validatorVars, opVars, bootVars>>

\* A fallback timer runs out.
FallbackTimer ==
    /\ ui.fallbackTimers > 0
    /\ ui' = FallbackFired(ui)
    /\ UNCHANGED <<validatorVars, opVars, bootVars>>

NextSurface ==
    \/ HandleSubmit
    \/ OpenFileDialog
    \/ FileDialogClosed
    \/ RequestResolves
    \/ RequestRejects
    \/ FallbackTimer

SpecSurface == InitSurface /\ [][NextSurface]_vars

\* A timer that is set runs out.
SpecSurfaceLive == SpecSurface /\ WF_vars(FallbackTimer)

-----------------------------------------------------------------------------
(* Properties of the validators (SpecValidator). *)

Called(fn) == vcall.fn = fn /\ vret.reason # "not called"

IsStringArg == vcall.arg.t = "string"

\* The control characters 0x00-0x08, 0x0B, 0x0C, 0x0E-0x1F and 0x7F.
ControlCodes == (0..8) \cup {11, 12} \cup (14..31) \cup {127}

\* C4: validateAndSanitizeInput returns a string within the ceiling with
\* exactly the control characters removed and everything else (newline, tab,
\* carriage return included) kept in order, rejects a longer string with the
\* length-specific reason and rejects a non-string; the ceilings are 50000
\* for the chat query and 10000 for generic text.
ThmC4_SanitizeInput ==
    Called("input") =>
        /\ QueryMaxLength = 50000 /\ DefaultMaxLength = 10000
        /\ vcall.maxLength \in {10000, 50000}
        /\ IF ~IsStringArg
           THEN ~vret.ok /\ vret.reason = "Input must be a string"
           ELSE IF TextLength(vcall.arg.s) <= vcall.maxLength
           THEN /\ vret.ok
                /\ vret.value = SelectSeq(vcall.arg.s, LAMBDA r : r.c \notin ControlCodes)
           ELSE /\ ~vret.ok
                /\ vret.reason =
                      IF vcall.maxLength = 50000
                      THEN "Input too long. Maximum length is 50000 characters"
                      ELSE "Input too long. Maximum length is 10000 characters"

\* A text of exactly the ceiling's length holding a NUL and a newline was
\* accepted: the NUL is gone and the newline kept.
WitC4_StrippedAtCeiling ==
    /\ Called("input")
    /\ IsStringArg
    /\ TextLength(vcall.arg.s) = vcall.maxLength
    /\ \E k \in 1..Len(vcall.arg.s) : vcall.arg.s[k].c = 0
    /\ \E k \in 1..Len(vcall.arg.s) : vcall.arg.s[k].c = 10
    /\ vret.ok
    /\ Len(vret.value) = 1 /\ vret.value[1].c = 10

\* The characters [A-Za-z0-9_:.-].
ModelNameCodes == (65..90) \cup (97..122) \cup (48..57) \cup {95, 58, 46, 45}

\* C5: validateModelName rejects every identifier with a character outside
\* [A-Za-z0-9_:.-] and every empty or whitespace-only identifier; what it
\* accepts it returns trimmed.
ThmC5_ModelName ==
    (Called("model") /\ IsStringArg) =>
        /\ (\E k \in 1..Len(vcall.arg.s) : vcall.arg.s[k] \notin ModelNameCodes) => ~vret.ok
        /\ (\A k \in 1..Len(vcall.arg.s) : IsWhiteSpace(vcall.arg.s[k])) => ~vret.ok
        /\ vret.ok => vret.value = Trim(vcall.arg.s)

\* An identifier using ':' and '.' was accepted.
WitC5_NameAccepted ==
    /\ Called("model")
    /\ IsStringArg
    /\ Includes1(vcall.arg.s, 58)
    /\ Includes1(vcall.arg.s, 46)
    /\ vret.ok
    /\ vret.value = vcall.arg.s

CanonicalHasDotDotOrTilde ==
    LET canonical == normalize(vcall.arg.s)
    IN Includes2(canonical, DOT, DOT) \/ Includes1(canonical, TILDE)

\* C6: a path whose canonical form contains '..' or '~' is rejected as an
\* invalid path whether or not the target exists and whatever its size: the
\* traversal check comes before the existence and size checks.
ThmC6_TraversalRejectedFirst ==
    (Called("path") /\ IsStringArg /\ CanonicalHasDotDotOrTilde) =>
        ~vret.ok /\ vret.reason = "Invalid file path"

\* A traversal path whose target does not exist was rejected as invalid.
WitC6_TraversalMissingTarget ==
    /\ Called("path")
    /\ IsStringArg
    /\ Includes2(normalize(vcall.arg.s), DOT, DOT)
    /\ ~vcall.stat.exists
    /\ vret.reason = "Invalid file path"

\* A parent-directory traversal segment: a path segment that is "..".
HasTraversalSegment(p) ==
    LET segs == SplitOn(p, SLASH)
    IN \E k \in 1..Len(segs) : segs[k] = DotDot

\* A home-directory shortcut: the path starts with '~'.
HasHomeShortcut(p) == p # <<>> /\ p[1] = TILDE

\* C7: a path is accepted, and its canonical form returned, exactly when the
\* canonical form has no traversal segment and no home-directory shortcut,
\* the target exists and its size is at most 100 MB.
ClaimC7_AcceptedExactlyWhen ==
    (Called("path") /\ IsStringArg /\ vcall.arg.s # <<>>) =>
        LET canonical == normalize(vcall.arg.s)
            acceptable ==
                /\ ~HasTraversalSegment(canonical)
                /\ ~HasHomeShortcut(canonical)
                /\ vcall.stat.exists
                /\ vcall.stat.size <= 100 * 1024 * 1024
        IN /\ vret.ok <=> acceptable
           /\ vret.ok => vret.value = canonical

-----------------------------------------------------------------------------
(* Properties of the bridge (Spec). *)

Spawned(h) == h.proc # "none"

\* The outcome of the validator declared for a payload field of a request.
DeclaredValidation(h, field) ==
    CASE field = "query" -> validateAndSanitizeInput(h.payload.query, 50000)
      [] field = "model" -> validateModelName(h.payload.model)
      [] field = "baseModel" -> validateModelName(h.payload.baseModel)
      [] field = "filePath" -> validateAndSanitizeFilePath(h.payload.filePath, h.stat)

\* A value that reached the worker is the accepted output of its validator.
PassedValidator(h, frag) ==
    IF frag.field = "args"
    THEN /\ DeclaredValidation(h, "baseModel").ok
         /\ DeclaredValidation(h, "model").ok
         /\ DeclaredValidation(h, "filePath").ok
    ELSE /\ DeclaredValidation(h, frag.field).ok
         /\ frag.val = DeclaredValidation(h, frag.field).value

\* C1: no worker is spawned with a payload field that has not passed its
\* declared validator.
ClaimC1_ValidatedBeforeSpawn ==
    \A i \in DOMAIN op :
        Spawned(op[i]) =>
            \A a \in 1..Len(op[i].argv) :
                \A j \in 1..Len(op[i].argv[a]) :
                    op[i].argv[a][j].field # "" => PassedValidator(op[i], op[i].argv[a][j])

IsInlineProgram(argv, a) == a = 2 /\ argv[1][1].lit = "-c"

\* C2: caller-supplied values reach the worker only as discrete argument
\* values of a fixed program, never as part of the program text.
ClaimC2_NoPayloadInProgramText ==
    \A i \in DOMAIN op :
        Spawned(op[i]) =>
            \A a \in 1..Len(op[i].argv) :
                LET arg == op[i].argv[a]
                IN \/ \A j \in 1..Len(arg) : arg[j].field = ""
                   \/ /\ Len(arg) = 1
                      /\ ~IsInlineProgram(op[i].argv, a)

\* The reasons of the validators that reject a field of the request.
RejectionReasons(h) ==
    {DeclaredValidation(h, f).reason :
        f \in {g \in (IF h.kind = "query"
                      THEN {"query", "model"}
                           \cup (IF Truthy(h.payload.filePath) THEN {"filePath"} ELSE {})
                      ELSE {"model"}) :
                 ~DeclaredValidation(h, g).ok}}

ValidatedKinds == {"query", "download", "delete"}

NothingLaunchedOrEmitted(h) ==
    /\ h.proc = "none"
    /\ h.argv = <<>>
    /\ h.timers = {}
    /\ h.events = <<>>

\* C3 as claimed: a validator's rejection for submit-ai-query, download-model
\* or delete-model rejects the request with the validator's reason, spawns
\* nothing and emits nothing.
ClaimC3_RejectedWithReason ==
    \A i \in DOMAIN op :
        (op[i].kind \in ValidatedKinds /\ RejectionReasons(op[i]) # {}) =>
            /\ op[i].settled = "rejected"
            /\ op[i].result.msg \in RejectionReasons(op[i])
            /\ NothingLaunchedOrEmitted(op[i])

\* C3 as amended: submit-ai-query and download-model reject with the
\* validator's reason; delete-model resolves with an error object whose
\* message is the validator's reason; in all three nothing is spawned and
\* nothing is emitted.
ThmC3_ValidationFailureReported ==
    \A i \in DOMAIN op :
        (op[i].kind \in ValidatedKinds /\ RejectionReasons(op[i]) # {}) =>
            /\ op[i].settled = (IF op[i].kind = "delete" THEN "resolved" ELSE "rejected")
            /\ op[i].result.msg \in RejectionReasons(op[i])
            /\ op[i].result.val = <<>>
            /\ NothingLaunchedOrEmitted(op[i])

\* delete-model was asked for "b/.." and answered with the format error.
WitC3_DeleteInvalidName ==
    \E i \in DOMAIN op :
        /\ op[i].kind = "delete"
        /\ op[i].payload.model = JsString(<<98, 47, 46, 46>>)
        /\ op[i].settled = "resolved"
        /\ op[i].result.msg = "Invalid model name format"
        /\ op[i].proc = "none"

RECURSIVE ConcatVals(_)
\* The concatenation of the values of a sequence of events.
ConcatVals(evs) ==
    IF evs = <<>> THEN <<>> ELSE Head(evs).val \o ConcatVals(Tail(evs))

OnChannel(h, channel) == SelectSeq(h.events, LAMBDA e : e.ch = channel)

\* C8: a chat query resolves only when its worker exited with code 0, and
\* then with the concatenation of the 'ai-stream' chunks in delivery order; a
\* worker that exited with code 0 without having been signalled resolves it.
ThmC8_ResponseIsConcatenation ==
    \A i \in DOMAIN op :
        op[i].kind = "query" =>
            /\ op[i].settled = "resolved" =>
                  /\ op[i].exit = "0"
                  /\ op[i].result.val = ConcatVals(OnChannel(op[i], "ai-stream"))
            /\ (op[i].exit = "0" /\ op[i].killAt = "none") => op[i].settled = "resolved"

\* "Hi" then "i" were delivered and the query resolved with "Hii".
WitC8_TwoChunksResolved ==
    \E i \in DOMAIN op :
        /\ op[i].kind = "query"
        /\ op[i].exit = "0"
        /\ op[i].settled = "resolved"
        /\ Len(OnChannel(op[i], "ai-stream")) = 2
        /\ OnChannel(op[i], "ai-stream")[1].val = <<72, 105>>
        /\ op[i].result.val = <<72, 105, 105>>

RECURSIVE ExpectedFrames(_)
\* The frames a line-by-line reading of the worker's output gives: one per
\* record, one synthetic error frame per unparseable line, none for a blank.
ExpectedFrames(frags) ==
    IF frags = <<>> THEN <<>>
    ELSE LET f == Head(frags)
         IN (IF f.part = "head" \/ f.line.text = "blank" THEN <<>>
             ELSE IF f.line.text = "json" THEN <<f.line.frame>>
             ELSE <<SyntheticErrorFrame>>)
            \o ExpectedFrames(Tail(frags))

RECURSIVE EventVals(_)
EventVals(evs) == IF evs = <<>> THEN <<>> ELSE <<Head(evs).val>> \o EventVals(Tail(evs))

AtLineBoundary(h) == h.wrote = <<>> \/ Last(h.wrote).part # "head"
AtCharBoundary(h) == h.wrote = <<>> \/ ~IsLead2(Last(h.wrote))

\* C9: what is delivered on 'ai-stream' is the text the worker wrote, and what
\* is delivered on 'download-progress' are the frames the worker wrote, in
\* order, nothing dropped, duplicated or reordered.
ClaimC9_DeliveredInOrder ==
    \A i \in DOMAIN op :
        /\ (op[i].kind = "query" /\ AtCharBoundary(op[i])) =>
              ConcatVals(OnChannel(op[i], "ai-stream")) = Utf8Decode(op[i].wrote)
        /\ (op[i].kind = "download" /\ AtLineBoundary(op[i])) =>
              EventVals(OnChannel(op[i], "download-progress")) = ExpectedFrames(op[i].wrote)

TimeoutMessages ==
    {QueryTimeoutMessage,
     "Download timeout - process took too long",
     "Delete operation timed out",
     "System requirements check timeout",
     FineTuningTimeoutMessage,
     "Export timeout",
     "Dashboard data timeout",
     "get-ai-options timeout",
     "get-model-info timeout"}

\* C10: a worker that is still running at its deadline is signalled and the
\* operation is then settled as a timeout failure; until then a deadline
\* timer is pending, so the operation cannot hang.
ClaimC10_TimeoutFailure ==
    \A i \in DOMAIN op :
        /\ op[i].killAt = "live" =>
              /\ op[i].signalled
              /\ op[i].settled # "pending"
              /\ op[i].result.msg \in TimeoutMessages
        /\ (op[i].proc = "running" /\ op[i].settled = "pending") => op[i].timers # {}

-----------------------------------------------------------------------------
(* Properties of download-model and of terminal states (Spec). *)

\* C11: once the worker of a download-model operation has exited, whatever
\* its exit code and whatever it wrote, the request has been resolved or
\* rejected.
ClaimC11_SettledOnExit ==
    \A i \in DOMAIN op :
        (op[i].kind = "download" /\ op[i].proc = "closed") => op[i].settled # "pending"

\* C12: a download worker that is alive and was not signalled always has its
\* deadline timer pending, also after a terminal frame resolved the
\* operation: the worker cannot outlive the deadline.
ClaimC12_WorkerBoundedByDeadline ==
    \A i \in DOMAIN op :
        (op[i].kind = "download" /\ op[i].proc = "running" /\ ~op[i].signalled) =>
            "timeout" \in op[i].timers

\* A termination signal for the operation: a timer of its deadline protocol
\* fires, or its worker reports 'close' or 'error'.
TerminationSignal(i) ==
    DeadlineTimer(i) \/ GraceTimer(i) \/ FinalTimer(i) \/ ProcessClose(i) \/ ProcessError(i)

\* C13: a termination signal for an operation that is already settled does
\* not settle it again, changes nothing of its result and emits no event on
\* any channel.
ClaimC13_TerminalIsFinal ==
    [][\A i \in DOMAIN op :
          (op[i].settled # "pending" /\ TerminationSignal(i)) =>
              /\ op'[i].settled = op[i].settled
              /\ op'[i].result = op[i].result
              /\ op'[i].events = op[i].events]_vars

RECURSIVE LinesOf(_)
\* The lines the worker wrote, whatever way the pipe cut them.
LinesOf(frags) ==
    IF frags = <<>> THEN <<>>
    ELSE (IF Head(frags).part = "tail" THEN <<>> ELSE <<Head(frags).line>>)
         \o LinesOf(Tail(frags))

RECURSIVE WholeLines(_)
WholeLines(lines) ==
    IF lines = <<>> THEN <<>>
    ELSE <<Fragment(Head(lines), "whole")>> \o WholeLines(Tail(lines))

\* The download handle right after the launch of its worker.
Launched(h) ==
    [h EXCEPT !.settled = "pending", !.result = NoResult, !.timers = {"timeout"},
              !.events = <<>>, !.wrote = <<>>]

\* No deadline has passed and the worker has not exited.
Undisturbed(h) == h.proc = "running" /\ ~h.signalled

\* C14: a download stream of a valid frame, one unparseable line and a valid
\* frame yields exactly one synthetic error frame, both valid frames, and the
\* settlement the stream without the bad line yields.
ClaimC14_MalformedLineResilience ==
    \A i \in DOMAIN op :
        LET h == op[i]
            lines == LinesOf(h.wrote)
            evs == EventVals(OnChannel(h, "download-progress"))
            clean == DownloadOnLines(Launched(h), WholeLines(<<lines[1], lines[3]>>))
        IN (/\ h.kind = "download" /\ Undisturbed(h) /\ AtLineBoundary(h)
            /\ Len(lines) = 3
            /\ lines[1].text = "json" /\ lines[2].text = "garbage" /\ lines[3].text = "json") =>
               /\ Len(SelectSeq(evs, LAMBDA f : f = SyntheticErrorFrame)) = 1
               /\ SelectSeq(evs, LAMBDA f : f # SyntheticErrorFrame)
                     = <<lines[1].frame, lines[3].frame>>
               /\ h.settled = clean.settled
               /\ h.result = clean.result

\* C15: a progress record that arrives cut into two chunks is decoded as one
\* frame equal to the record, with no synthetic error frame for its parts
\* (download-model and start-fine-tuning).
ClaimC15_PartialLineTolerated ==
    \A i \in DOMAIN op :
        LET h == op[i]
            cutInTwo == /\ Len(h.wrote) = 2
                        /\ h.wrote[1].part = "head" /\ h.wrote[2].part = "tail"
        IN /\ (h.kind = "download" /\ cutInTwo /\ h.wrote[1].line.text = "json") =>
                 EventVals(OnChannel(h, "download-progress")) = <<h.wrote[1].line.frame>>
           /\ (h.kind = "finetune" /\ cutInTwo /\ h.wrote[1].line.text = "progress") =>
                 SelectSeq(EventVals(OnChannel(h, "fine-tuning-progress")),
                           LAMBDA f : ~f.warning) = <<h.wrote[1].line.frame>>

\* C16: on 'download-progress' nothing follows a terminal frame.
ClaimC16_NothingAfterTerminalFrame ==
    \A i \in DOMAIN op :
        LET evs == EventVals(OnChannel(op[i], "download-progress"))
        IN op[i].kind = "download" =>
              \A k \in 1..Len(evs) : IsTerminalFrame(evs[k]) => k = Len(evs)

\* C17: a record with stage "error" read from the download worker before the
\* deadline resolves the operation with that record, as a record with
\* progress 100 or stage "complete" does.
ClaimC17_ErrorStageIsTerminal ==
    \A i \in DOMAIN op :
        LET h == op[i]
        IN (/\ h.kind = "download" /\ ~h.signalled /\ h.wrote # <<>>
            /\ h.wrote[1].part = "whole" /\ h.wrote[1].line.text = "json"
            /\ \/ h.wrote[1].line.frame.stage \in {"error", "complete"}
               \/ h.wrote[1].line.frame.progress = 100) =>
               /\ h.settled = "resolved"
               /\ h.result.val = <<h.wrote[1].line.frame>>

-----------------------------------------------------------------------------
(* Properties of start-fine-tuning (Spec). *)

\* The stages of the deadline warnings sent on 'fine-tuning-progress'.
Warnings(h) ==
    LET evs == SelectSeq(OnChannel(h, "fine-tuning-progress"),
                         LAMBDA e : e.val.stage \in {"Timeout Warning", "Final Warning"})
    IN [k \in 1..Len(evs) |-> evs[k].val.stage]

ClaimC19_TimersReleasedOnExit ==
    \A i \in DOMAIN op :
        (op[i].kind = "finetune" /\ op[i].proc = "closed") =>
            /\ op[i].timers = {}
            /\ op[i].killAt # "dead"

\* C20: a fine-tuning worker that exits with a non-zero code fails the
\* request; unless the timeout failure came first, the message is the one of
\* exit code 1, 2, 3 or 4 (four distinct messages), the generic one otherwise.
ThmC20_ExitCodeMessages ==
    \A i \in DOMAIN op :
        LET h == op[i]
        IN (h.kind = "finetune" /\ h.proc = "closed" /\ h.errno = "" /\ h.exit # "0") =>
              /\ h.settled = "rejected"
              /\ h.killAt # "live" =>
                    h.result.msg =
                       CASE h.exit = "1" -> "Model preparation failed - check if the base model is available in Ollama"
                         [] h.exit = "2" -> "Training data validation failed - check your uploaded files"
                         [] h.exit = "3" -> "System requirements not met - insufficient RAM or storage"
                         [] h.exit = "4" -> "Network error - check your internet connection"
                         [] OTHER -> "Fine-tuning start failed"
              /\ Cardinality({FineTuningExitMessage(c) : c \in {"1", "2", "3", "4", "5"}}) = 5

\* A worker exited with code 4 and the request failed with the network message.
WitC20_NetworkError ==
    \E i \in DOMAIN op :
        /\ op[i].kind = "finetune"
        /\ op[i].proc = "closed"
        /\ op[i].exit = "4"
        /\ op[i].settled = "rejected"
        /\ op[i].result.msg = "Network error - check your internet connection"

\* Every line was read whole.
ReadWhole(h) == \A k \in 1..Len(h.wrote) : h.wrote[k].part = "whole"

\* The worker wrote progress lines and then its result, and nothing else.
ProgressThenResult(lines) ==
    /\ lines # <<>>
    /\ Last(lines).text = "json"
    /\ \A k \in 1..(Len(lines) - 1) : lines[k].text = "progress"

\* C21: a fine-tuning worker that writes 'PROGRESS_UPDATE: ' lines and then
\* its JSON result and exits with code 0 resolves the request with that
\* result, and each progress line was forwarded as one event.
ClaimC21_ProgressThenSuccess ==
    \A i \in DOMAIN op :
        LET h == op[i]
            lines == LinesOf(h.wrote)
            progress == SelectSeq(lines, LAMBDA l : l.text = "progress")
            forwarded == SelectSeq(EventVals(OnChannel(h, "fine-tuning-progress")),
                                   LAMBDA f : ~f.warning)
        IN (/\ h.kind = "finetune" /\ h.proc = "closed" /\ h.exit = "0"
            /\ h.errno = "" /\ h.killAt = "none"
            /\ ReadWhole(h) /\ ProgressThenResult(lines)) =>
               /\ h.settled = "resolved"
               /\ h.result = ParsedJson
               /\ forwarded = [k \in 1..Len(progress) |-> progress[k].frame]

-----------------------------------------------------------------------------
(* Worker processes per operation (Spec). *)

\* The invocation passed the validators of its handler.
Accepted(h) ==
    h.kind # "none" /\ (h.kind \in ValidatedKinds => RejectionReasons(h) = {})

\* C22: an accepted invocation called spawn exactly once, a refused one never;
\* so an operation never has more than one worker, alive or not.
ThmC22_OneWorkerPerInvocation ==
    \A i \in DOMAIN op :
        /\ op[i].spawns <= 1
        /\ Accepted(op[i]) <=> op[i].spawns = 1
        /\ op[i].proc # "none" <=> op[i].spawns = 1

\* A download was accepted, its one worker ran and has exited.
WitC22_DownloadWorkerRan ==
    \E i \in DOMAIN op :
        /\ op[i].kind = "download"
        /\ Accepted(op[i])
        /\ op[i].spawns = 1
        /\ op[i].proc = "closed"
        /\ op[i].wrote # <<>>

-----------------------------------------------------------------------------
(* Properties of operations in flight together (SpecConcurrent). *)

\* The channel on which an operation kind streams to the window.
StreamChannel(kind) ==
    CASE kind = "query" -> "ai-stream"
      [] kind = "download" -> "download-progress"
      [] kind = "finetune" -> "fine-tuning-progress"
      [] OTHER -> "none"

\* ipcRenderer.on(channel, ...): the window has one listener per channel; it
\* is given the value only, nothing that identifies the operation.
Listener(channel) == [window |-> "main", channel |-> channel]

\* The subscriber of an operation: the listener of its stream channel.
Subscriber(h) == Listener(StreamChannel(h.kind))

Range(seq) == {seq[k] : k \in 1..Len(seq)}

Channels(h) == {h.events[k].ch : k \in 1..Len(h.events)}

\* What the handlers of one operation can make of its handle in one step.
OwnSuccessors(h) ==
    IF h.kind = "none"
    THEN {SubmitAiQueryStart(h, PairQueryArgs, NoStat, "running"),
          DownloadModelStart(h, PairDownloadArgs, "running")}
    ELSE (IF h.kind = "query"
          THEN {QueryOnData(h, d) : d \in SeqsUpTo(QueryBytes, MaxPairBytes)}
               \cup {OnCompletionTimeout(h)}
          ELSE {DownloadOnData(h, d) : d \in ChunksAfter(h.wrote, PairLines, MaxPairLines)})
         \cup {[OnClose(h, c) EXCEPT !.proc = "closed", !.exit = c] : c \in PairExitCodes}
         \cup {OnTimeout(h)}

\* A query and a download in the two handles keep to themselves.
Separate(q, d) ==
    /\ Channels(q) \subseteq {"ai-stream", "ai-stream-complete"}
    /\ Channels(d) \subseteq {"download-progress"}
    /\ q.buffer = ConcatVals(OnChannel(q, "ai-stream"))
    /\ \A k \in 1..Len(q.buffer) : q.buffer[k] \in {72, 105, 233, ReplacementChar}
    /\ \A k \in 1..Len(d.events) :
          d.events[k].val \in {l.frame : l \in Range(LinesOf(d.wrote))}
                              \cup {SyntheticErrorFrame}
    /\ q.settled = "resolved" => q.result = Value(q.buffer)
    /\ d.settled = "resolved" =>
          \E k \in 1..Len(d.events) : d.result = Value(<<d.events[k].val>>)
    /\ Subscriber(q) # Subscriber(d)

\* C23: with a chat query and a download in flight together, under every
\* interleaving, each streams on its own channels, from its own worker's
\* output, to its own listener, and every step changes one operation only,
\* as its own handlers compute it from its own handle.
ThmC23_NoCrossContamination ==
    /\ [](\A i, j \in DOMAIN op :
              (op[i].kind = "query" /\ op[j].kind = "download") => Separate(op[i], op[j]))
    /\ [][\A i \in DOMAIN op :
              op'[i] # op[i] =>
                 /\ op'[i] \in OwnSuccessors(op[i])
                 /\ \A j \in DOMAIN op \ {i} : op'[j] = op[j]]_vars

\* A query and a download streamed at the same time and both resolved.
WitC23_BothResolved ==
    \E i, j \in DOMAIN op :
        /\ op[i].kind = "query" /\ op[j].kind = "download"
        /\ op[i].settled = "resolved" /\ op[j].settled = "resolved"
        /\ op[i].result.val # <<>>
        /\ OnChannel(op[j], "download-progress") # <<>>

\* The worker of the operation is alive.
InFlight(h) == h.proc = "running"

\* C24: when an operation emits a chunk or frame while another operation is
\* in flight, the value does not reach the other operation's subscriber.
ClaimC24_DeliveredToOwnSubscriber ==
    [][\A i, j \in DOMAIN op :
          (i # j /\ InFlight(op[i]) /\ InFlight(op[j])) =>
              \A k \in (Len(op[i].events) + 1)..Len(op'[i].events) :
                  Listener(op'[i].events[k].ch) # Subscriber(op[j])]_vars

-----------------------------------------------------------------------------
(* The bridge surface. *)

\* contextBridge.exposeInMainWorld('electronAPI', ...): the operations the
\* preload script publishes and the channel each one invokes.
PublishedOperations ==
    [getAIOptions |-> "get-ai-options",
     submitAIQuery |-> "submit-ai-query",
     downloadModel |-> "download-model",
     openFileDialog |-> "open-file-dialog",
     clearChat |-> "clear-chat",
     checkSystemRequirements |-> "check-system-requirements",
     startFineTuning |-> "start-fine-tuning",
     exportFineTunedModel |-> "export-fine-tuned-model",
     getModelInfo |-> "get-model-info",
     deleteModel |-> "delete-model"]

\* The channels the preload script lets the window listen on.
SubscribableChannels == {"ai-stream", "download-progress", "fine-tuning-progress"}

\* The ipcMain.handle registrations of the host, in source order.
RegisteredHandlers ==
    <<"open-file-dialog", "submit-ai-query", "download-model", "get-ai-options",
      "get-model-info", "delete-model", "clear-chat", "check-system-requirements",
      "start-fine-tuning", "export-fine-tuned-model", "get-dashboard-data">>

\* The window.electronAPI operations the scripts of the window call: those
\* of IPCHandlers and the one of DashboardManager.loadDashboardData.
IpcHandlersCalls ==
    {"getAIOptions", "submitAIQuery", "downloadModel", "openFileDialog", "clearChat"}
DashboardManagerCalls == {"getDashboardData"}
InvokedOperations == IpcHandlersCalls \cup DashboardManagerCalls

\* C25: the window invokes published operations only, each published
\* operation has exactly one registered handler, and the host emits on
\* subscribable channels only.
ClaimC25_BridgeSurfaceClosed ==
    /\ InvokedOperations \subseteq DOMAIN PublishedOperations
    /\ \A f \in DOMAIN PublishedOperations :
          Cardinality({k \in DOMAIN RegisteredHandlers :
                          RegisteredHandlers[k] = PublishedOperations[f]}) = 1
    /\ \A i \in DOMAIN op : Channels(op[i]) \subseteq SubscribableChannels

-----------------------------------------------------------------------------
(* Failure categories as reported to the caller (Spec). *)

\* What the caller of the operation gets.
Outcome(h) == [settled |-> h.settled, result |-> h.result]

\* The operation, not yet settled, with output b accumulated.
Unsettled(h, b) == [h EXCEPT !.settled = "pending", !.result = NoResult, !.buffer = b]

\* The outcomes of the operation when its worker ran and exited with one of
\* `codes` having written one of `buffers`.
CloseOutcomes(h, codes, buffers) ==
    {Outcome(OnClose(Unsettled(h, b), c)) : c \in codes, b \in buffers}

\* Output of a worker that failed: nothing, or something that is not JSON.
FailedOutput(h) == IF h.kind \in BufferedKinds THEN {<<>>, <<"junk">>} ELSE {<<>>}

\* Any output of a worker.
AnyOutput(h) ==
    IF h.kind \in BufferedKinds THEN SeqsUpTo(OutputTokens, MaxTokens) ELSE {<<>>, h.buffer}

\* C26: the outcome of an operation whose worker could not be launched
\* differs from every outcome the operation has when its worker ran and
\* exited with a non-zero code.
ClaimC26_LaunchFailureDistinct ==
    \A i \in DOMAIN op :
        (op[i].errno # "" /\ op[i].proc \in {"errored", "closed"}) =>
            /\ op[i].settled # "pending"
            /\ Outcome(op[i]) \notin CloseOutcomes(op[i], ExitCodes \ {"0"}, FailedOutput(op[i]))

\* C27: the outcome of an operation whose worker was terminated at the
\* deadline carries a message, and differs from every outcome the operation
\* has when its worker exits by itself, whatever its exit code and output.
ClaimC27_TimeoutDistinct ==
    \A i \in DOMAIN op :
        op[i].killAt = "live" =>
            /\ op[i].settled # "pending"
            /\ op[i].result.msg # ""
            /\ Outcome(op[i]) \notin CloseOutcomes(op[i], ExitCodes \cup {"null"}, AnyOutput(op[i]))

-----------------------------------------------------------------------------
(* Properties of start-up and of the conversation store (SpecStartup).      *)

\* What ensureOllamaRunning has done, at every moment of its run and after.
EnsureBounded ==
    /\ boot.launches <= 1
    /\ boot.probes <= OllamaStartAttempts
    /\ boot.first = "up" =>
            boot.running = "true" /\ boot.launches = 0 /\ boot.probes = 0
    /\ boot.first = "down" => boot.launches = 1
    /\ boot.running = "none" => boot.failed = boot.probes
    /\ boot.running = "true" /\ boot.first = "down" =>
            boot.probes \in 1..OllamaStartAttempts /\ boot.failed = boot.probes - 1
    /\ boot.running = "false" =>
            /\ boot.first = "down"
            /\ boot.probes = OllamaStartAttempts
            /\ boot.failed = OllamaStartAttempts

\* Once ensureOllamaRunning has returned it probes and launches no more.
EnsureReturnsOnce ==
    [][boot.running # "none" =>
            /\ boot'.running = boot.running
            /\ boot'.launches = boot.launches
            /\ boot'.probes = boot.probes]_vars

ClaimC29_SetupRequiredWhenDaemonDown ==
    boot.running = "false" => boot.window # "main"

\* The store is there whenever the main window is.
StoreBeforeWindow ==
    boot.window = "main" => boot.ensured /\ boot.store # "absent"

\* A clear-chat call keeps the store in existence; when the file system
\* takes the write, that one write leaves it empty and the call yields true.
ClearLeavesEmpty ==
    [][boot'.clears = boot.clears + 1 =>
            /\ boot.store # "absent"
            /\ boot'.store # "absent"
            /\ boot.fs = "ok" =>
                    /\ boot'.store = "empty"
                    /\ boot'.writes = boot.writes + 1
                    /\ boot'.cleared = "true"]_vars

-----------------------------------------------------------------------------
(* Settlement of download-model (Spec). *)

\* The terminal frames among those the handler decoded and sent, in order.
TerminalFrames(h) ==
    SelectSeq(EventVals(OnChannel(h, "download-progress")), IsTerminalFrame)

\* A resolved download holds the first terminal frame, and a terminal frame
\* leaves no download pending.
FirstTerminalDecides ==
    \A i \in DOMAIN op :
        op[i].kind = "download" =>
            /\ op[i].settled = "resolved" =>
                    /\ TerminalFrames(op[i]) # <<>>
                    /\ op[i].result = Value(<<TerminalFrames(op[i])[1]>>)
            /\ TerminalFrames(op[i]) # <<>> => op[i].settled # "pending"

\* C31: download-model settles with the first event that decides it: the
\* first terminal frame (progress 100, status "Cannot be installed" or stage
\* "complete") resolves it with that frame, no later frame or exit changes a
\* settled request, and a non-zero exit before any terminal frame rejects it.
ThmC31_DownloadSettlesOnce ==
    /\ []FirstTerminalDecides
    /\ [][\A i \in DOMAIN op :
            op[i].kind = "download" =>
                /\ op[i].settled # "pending" =>
                        /\ op'[i].settled = op[i].settled
                        /\ op'[i].result = op[i].result
                /\ (/\ op[i].settled = "pending"
                    /\ TerminalFrames(op'[i]) # <<>>) =>
                        /\ op'[i].settled = "resolved"
                        /\ op'[i].result = Value(<<TerminalFrames(op'[i])[1]>>)
                /\ (/\ op[i].proc = "running"
                    /\ op'[i].proc = "closed"
                    /\ op'[i].exit # "0"
                    /\ TerminalFrames(op[i]) = <<>>) =>
                        op'[i].settled = "rejected"]_vars

\* C31: a download resolved by its first terminal frame, after which the
\* worker wrote a different terminal frame and exited non-zero.
WitC31_LaterFrameAndExitIgnored ==
    \E i \in DOMAIN op :
        /\ op[i].kind = "download"
        /\ op[i].settled = "resolved"
        /\ Len(TerminalFrames(op[i])) >= 2
        /\ TerminalFrames(op[i])[2] # TerminalFrames(op[i])[1]
        /\ op[i].result = Value(<<TerminalFrames(op[i])[1]>>)
        /\ op[i].proc = "closed"
        /\ op[i].exit = "1"

-----------------------------------------------------------------------------
(* Chat queries after their settlement (Spec). *)

\* The query was rejected by its deadline timer.
TimedOut(h) ==
    /\ h.kind = "query"
    /\ h.settled = "rejected"
    /\ h.result = Failure(QueryTimeoutMessage)

\* C32: once a chat query has been rejected as a timeout, no further
\* 'ai-stream' chunk of that operation is sent to the window, whatever the
\* order of the deadline, the stdout data events and the close event.
ClaimC32_NoChunkAfterTimeout ==
    [][\A i \in DOMAIN op :
          TimedOut(op[i]) =>
              OnChannel(op'[i], "ai-stream") = OnChannel(op[i], "ai-stream")]_vars

\* The number of completion events of the operation.
Completions(h) == Len(OnChannel(h, "ai-stream-complete"))

\* The worker of the operation could not be launched.
LaunchFailed(h) == h.errno # ""

\* C33: a chat query whose worker ran and closed has emitted exactly one
\* 'ai-stream-complete', after its last 'ai-stream' chunk, whatever the exit
\* code and the running time; a query whose worker failed to launch emits no
\* completion event once it is rejected.
ClaimC33_OneCompletionAfterLastChunk ==
    /\ [](\A i \in DOMAIN op :
            (op[i].kind = "query" /\ op[i].proc = "closed" /\ ~LaunchFailed(op[i])) =>
                /\ Completions(op[i]) = 1
                /\ Last(op[i].events).ch = "ai-stream-complete")
    /\ [][\A i \in DOMAIN op :
            (/\ op[i].kind = "query"
             /\ LaunchFailed(op[i])
             /\ op[i].settled = "rejected") =>
                Completions(op'[i]) = Completions(op[i])]_vars

-----------------------------------------------------------------------------
(* Requests that report failure by their value (Spec). *)

QuietKinds == {"options", "modelinfo", "delete", "export"}

\* The operation holds the fixed fallback value of its kind: ["No models
\* found"], [], {status: 'error', message}, {success: false, error}.
IsFallback(h) ==
    CASE h.kind = "options" -> h.result = NoModelsFound
      [] h.kind = "modelinfo" -> h.result = EmptyList
      [] OTHER -> h.result.msg # "" /\ h.result.val = <<>>

\* The step from h to g is a failure path: the deadline fired, the launch
\* failed, the worker closed with empty or unparseable output, or the
\* argument was refused.
FailurePath(h, g) ==
    \/ ~h.signalled /\ g.signalled
    \/ h.proc = "failing" /\ g.proc = "errored"
    \/ h.proc = "running" /\ g.proc = "closed" /\ ~DataParses(h.buffer)
    \/ h.kind = "none" /\ g.proc = "none"

-----------------------------------------------------------------------------
(* Properties of the chat surface (SpecSurface). *)

\* C35: the chat surface never has two chat queries in flight: while
\* isProcessing is set (from the submit that sent a query until
\* clearLoadingState), every handleSubmit returns without sending, also in
\* the 3 s between a resolved query and its fallback timer.
ThmC35_OneQueryInFlight ==
    /\ [](ui.inFlight <= 1 /\ (ui.inFlight = 1 => ui.isProcessing))
    /\ [][ui.isProcessing => ui'.sent = ui.sent /\ ui'.inFlight <= ui.inFlight]_vars

\* C35: a submit was ignored in the fallback window of a resolved query.
WitC35_IgnoredInFallbackWindow ==
    /\ ui.lastSubmit = "ignored"
    /\ ui.isProcessing
    /\ ui.inFlight = 0
    /\ ui.fallbackTimers = 1

\* The loading state is cleared.
LoadingCleared ==
    /\ ~ui.isProcessing
    /\ ui.inputEnabled
    /\ ~ui.spinner
    /\ ui.selectedFilePath = ""

\* C36: after a submit that sent a query, once the request settles the
\* loading state is cleared: in the same step when the request rejects, and
\* by the fallback timer, which needs no completion event, when it resolves.
ThmC36_LoadingStateCleared ==
    /\ [][ui'.errorMessages = ui.errorMessages + 1 => LoadingCleared']_vars
    /\ []((ui.isProcessing /\ ui.inFlight = 0) => ui.fallbackTimers >= 1)
    /\ (ui.isProcessing /\ ui.inFlight = 0) ~> LoadingCleared

\* C36: the fallback timer of a resolved query cleared the loading state and
\* the file chosen for that query.
WitC36_ClearedByFallback ==
    /\ ui.sent = 1
    /\ ui.errorMessages = 0
    /\ ui.inFlight = 0
    /\ ui.fallbackTimers = 0
    /\ LoadingCleared

-----------------------------------------------------------------------------
(* Python validation at start-up (SpecStartup). *)

\* The main window is there only after a validation that succeeded, and a
\* validation that failed has settled on its first event.
ValidatedBeforeWindow ==
    /\ boot.window = "main" => boot.python = "resolved"
    /\ boot.python = "resolved" =>
            boot.pyFirst = "close" /\ boot.pyExit = "0"
    /\ boot.python = "rejected" =>
            /\ boot.checks = "false"
            /\ boot.window # "main"
            /\ boot.pyFirst = "close" => boot.pyExit \in {"1", "null"}

\* C37: the main window is created only after the Python validation
\* succeeded; a validation that fails (non-zero exit, launch error, or the
\* 10 s timer first) shows the error window and the main window is never
\* created; the outcome is that of the first of close, error and timer.
ThmC37_MainWindowAfterValidation ==
    /\ []ValidatedBeforeWindow
    /\ [][/\ boot.python # "pending" =>
                /\ boot'.python = boot.python
                /\ boot'.pyFirst = boot.pyFirst
          /\ (boot.python = "pending" /\ boot'.python = "rejected") =>
                boot'.window = "setup"]_vars

\* C37: the timer fired first and rejected; the import test then exited
\* with code 0, and the error window stayed.
WitC37_TimerFirstThenCleanExit ==
    /\ boot.pyFirst = "timer"
    /\ boot.python = "rejected"
    /\ boot.pyExit = "0"
    /\ boot.window = "setup"

====
